---- MODULE Spec2Model ----
(***************************************************************************)
(* Model of the googledrive upload package: the remote Drive service as    *)
(* seen through Files.List / Files.Create, the directory materializer      *)
(* MkdirAll, the dedup upload GetOrCreateFile, UploadFile and              *)
(* UploadDirectory; of the archives of package files (GZip, Zip,           *)
(* GZipDecompress); of the command line program (main, upload); and of the *)
(* byte-range downloads of gdrive.DriveClient.                             *)
(*                                                                         *)
(* A path is a sequence of characters.  "/" is the separator and "." the   *)
(* dot; every other element (such as "docs") stands for a non-empty run of *)
(* ordinary characters, which no path function of the program looks into.  *)
(* A remote id is a natural number: node i of the remote is remote[i], and *)
(* EmptyId is Go's empty string.                                           *)
(***************************************************************************)
EXTENDS Integers, Sequences, FiniteSets, TLC

VARIABLES
    remote,       \* the Drive nodes, by id: [name, parent, mime, trashed]
    calls,        \* every remote call issued so far, in order
    fsFiles,      \* the local files that exist (a set of paths)
    dirCache,     \* package variable dirCache: segment name -> id
    compression,  \* svc.compression
    ops,          \* the calls of the API made so far, with their results
    auth,         \* the token flow: getToken, the callback server, the channel
    callers       \* the concurrent callers of GetOrCreateFile, by position

vars == <<remote, calls, fsFiles, dirCache, compression, ops, auth, callers>>

\* ------------------------------------------------------------------ bounds
MaxOps == 2
MaxRuns == 1
MaxDownloads == 1

\* ------------------------------------------------------- program constants
NoCompression == -1
GZipCompression == 1
ZipCompression == 2
EmptyId == 0

Nil == <<>>

\* Before the token flow starts, and with no concurrent caller, the two
\* process variables hold these values.
AuthOff == [pc |-> "off"]
NoCallers == <<>>

\* ------------------------------------------------------------ path strings
Sep == "/"
Dot == "."

RECURSIVE SplitFrom(_, _, _)
\* The segments of s[i..], cur being the segment read so far.
SplitFrom(s, i, cur) ==
    IF i > Len(s) THEN <<cur>>
    ELSE IF s[i] = Sep THEN <<cur>> \o SplitFrom(s, i + 1, <<>>)
    ELSE SplitFrom(s, i + 1, Append(cur, s[i]))

\* strings.Split(s, "/"): Split("") is one empty segment.
Split(s) == SplitFrom(s, 1, <<>>)

RECURSIVE NonEmpty(_)
\* The elements of a sequence of strings that are not the empty string.
NonEmpty(segs) ==
    IF Len(segs) = 0 THEN <<>>
    ELSE IF Head(segs) = <<>> THEN NonEmpty(Tail(segs))
    ELSE <<Head(segs)>> \o NonEmpty(Tail(segs))

RECURSIVE JoinSegs(_)
\* strings.Join(segs, "/")
JoinSegs(segs) ==
    IF Len(segs) = 0 THEN <<>>
    ELSE IF Len(segs) = 1 THEN segs[1]
    ELSE segs[1] \o <<Sep>> \o JoinSegs(Tail(segs))

DotDot == <<Dot, Dot>>

RECURSIVE CleanSegs(_, _, _)
\* The segments of a cleaned path: empty and "." segments are dropped, ".."
\* removes the segment before it (a rooted path drops a leading "..").
CleanSegs(segs, out, rooted) ==
    IF Len(segs) = 0 THEN out
    ELSE LET h == Head(segs)
             t == Tail(segs)
         IN  IF h = <<>> \/ h = <<Dot>> THEN CleanSegs(t, out, rooted)
             ELSE IF h = DotDot
                  THEN IF Len(out) > 0 /\ out[Len(out)] # DotDot
                       THEN CleanSegs(t, SubSeq(out, 1, Len(out) - 1), rooted)
                       ELSE IF rooted THEN CleanSegs(t, out, rooted)
                       ELSE CleanSegs(t, Append(out, h), rooted)
                  ELSE CleanSegs(t, Append(out, h), rooted)

\* filepath.Clean
Clean(p) ==
    IF p = <<>> THEN <<Dot>>
    ELSE LET rooted == p[1] = Sep
             body == JoinSegs(CleanSegs(Split(p), <<>>, rooted))
         IN  IF rooted THEN <<Sep>> \o body
             ELSE IF body = <<>> THEN <<Dot>> ELSE body

RECURSIVE StripTrailingSep(_)
StripTrailingSep(p) ==
    IF Len(p) > 0 /\ p[Len(p)] = Sep
    THEN StripTrailingSep(SubSeq(p, 1, Len(p) - 1))
    ELSE p

RECURSIVE LastSep(_, _)
\* The index of the last separator of p[1..i], 0 when there is none.
LastSep(p, i) ==
    IF i = 0 THEN 0 ELSE IF p[i] = Sep THEN i ELSE LastSep(p, i - 1)

\* filepath.Base
Base(p) ==
    IF p = <<>> THEN <<Dot>>
    ELSE LET q == StripTrailingSep(p)
         IN  IF q = <<>> THEN <<Sep>>
             ELSE SubSeq(q, LastSep(q, Len(q)) + 1, Len(q))

\* filepath.Dir
Dir(p) == Clean(SubSeq(p, 1, LastSep(p, Len(p))))

\* filepath.Join of two elements
Join(a, b) ==
    IF a # <<>> THEN Clean(a \o <<Sep>> \o b)
    ELSE IF b # <<>> THEN Clean(b)
    ELSE <<>>

HasPrefix(s, pre) == Len(pre) <= Len(s) /\ SubSeq(s, 1, Len(pre)) = pre

\* strings.TrimPrefix
TrimPrefix(s, pre) ==
    IF HasPrefix(s, pre) THEN SubSeq(s, Len(pre) + 1, Len(s)) ELSE s

GetRelativePath(file, baseDir) ==
    LET trimmed == TrimPrefix(file, baseDir)
        rel == IF Len(trimmed) > 0 /\ trimmed[1] = Sep
               THEN Tail(trimmed) ELSE trimmed
    IN  Join(Base(baseDir), rel)

tarGzipFilename(filename) == filename \o <<".tar.gz">>

zipFilename(filename) == filename \o <<".zip">>

\* ------------------------------------------------------------- fault plan
(***************************************************************************)
(* A world w is what a run of one operation reads and writes: the remote,  *)
(* the call log, the local files, the directory cache, and w.fail, the     *)
(* number of the fallible step (a remote call or a local file operation,   *)
(* counted in execution order) that fails, 0 when none does; w.steps       *)
(* counts the fallible steps taken, and w.built logs the steps that build  *)
(* an archive.  Every handler returns at its first error, so one failing   *)
(* step per operation gives all its behaviours.                            *)
(***************************************************************************)
FailsNow(w) == w.fail = 1

Passed(w) ==
    [w EXCEPT !.fail = IF @ > 1 THEN @ - 1 ELSE 0, !.steps = @ + 1]

\* ------------------------------------------------------------ file contents
\* What a local file or a remote node holds: the bytes of a source file
\* (named by the path it was written at), or an archive of entries.
NoContent == [kind |-> "none", src |-> <<>>, entries |-> <<>>]

Bytes(path) == [kind |-> "data", src |-> path, entries |-> <<>>]

Archive(kind, entries) == [kind |-> kind, src |-> <<>>, entries |-> entries]

\* ----------------------------------------------------- the remote service
ErrList == <<"googleapi: list failed">>
ErrCreate == <<"googleapi: create failed">>

\* The ids a Files.List query selects: trashed=false and name='..' and
\* '..' in parents, and the mimeType when the query names one ("any": none).
Matches(rem, mime, name, parent) ==
    {i \in 1..Len(rem) :
        /\ ~rem[i].trashed
        /\ rem[i].name = name
        /\ rem[i].parent = parent
        /\ (mime = "any" \/ rem[i].mime = mime)}

MinOf(S) == CHOOSE x \in S : \A y \in S : x <= y

\* Bind(v, F) is F(v), with v evaluated once however often F uses it.
Bind(v, F(_)) == CHOOSE y \in {F(x) : x \in {v}} : TRUE

\* Files.List().Q(query).PageSize(1).Do(): at most one file, the first of the
\* service's listing (here the oldest).
FilesList(w, mime, name, parent) ==
    LET found == Matches(w.remote, mime, name, parent)
        ok == ~FailsNow(w)
        files == IF ok /\ found # {} THEN <<MinOf(found)>> ELSE <<>>
        call == [op |-> "list", mime |-> mime, name |-> name, parent |-> parent,
                 ok |-> ok, id |-> IF files = <<>> THEN EmptyId ELSE files[1]]
    IN  [w |-> [Passed(w) EXCEPT !.calls = Append(@, call)],
         files |-> files,
         err |-> IF ok THEN Nil ELSE ErrList]

\* Files.Create(file).Do(): the service gives the new node a fresh id.
FilesCreate(w, mime, name, parent, media) ==
    LET ok == ~FailsNow(w)
        newId == Len(w.remote) + 1
        node == [name |-> name, parent |-> parent, mime |-> mime, trashed |-> FALSE,
                 content |-> media]
        call == [op |-> "create", mime |-> mime, name |-> name, parent |-> parent,
                 ok |-> ok, id |-> IF ok THEN newId ELSE EmptyId]
        w1 == [Passed(w) EXCEPT !.calls = Append(@, call)]
    IN  [w |-> IF ok THEN [w1 EXCEPT !.remote = Append(@, node)] ELSE w1,
         id |-> IF ok THEN newId ELSE EmptyId,
         err |-> IF ok THEN Nil ELSE ErrCreate]

\* --------------------------------------------------- directories and files
\* GetOrCreateDirectory without the existence check: every call creates.
GetOrCreateDirectory_NoLookup(w, dirName, parentID) ==
    Bind(FilesCreate(w, "folder", dirName, parentID, NoContent), LAMBDA dir :
        [w |-> dir.w, id |-> dir.id, err |-> dir.err])

GetOrCreateDirectory(w, dirName, parentID) ==
    Bind(FilesList(w, "folder", dirName, parentID), LAMBDA results :
        IF results.err # Nil
        THEN [w |-> results.w, id |-> EmptyId, err |-> results.err]
        ELSE IF Len(results.files) > 0
        THEN [w |-> results.w, id |-> results.files[1], err |-> Nil]
        ELSE Bind(FilesCreate(results.w, "folder", dirName, parentID, NoContent),
                  LAMBDA dir :
                      IF dir.err # Nil
                      THEN [w |-> dir.w, id |-> EmptyId, err |-> dir.err]
                      ELSE [w |-> dir.w, id |-> dir.id, err |-> Nil]))

\* GetOrCreateFile without the existence check: every call creates.
GetOrCreateFile_NoLookup(w, fileName, media, parentID) ==
    Bind(FilesCreate(w, "file", fileName, parentID, media), LAMBDA file :
        [w |-> file.w, id |-> file.id, err |-> file.err])

GetOrCreateFile(w, fileName, media, parentID) ==
    Bind(FilesList(w, "any", fileName, parentID), LAMBDA results :
        IF results.err # Nil
        THEN [w |-> results.w, id |-> EmptyId, err |-> results.err]
        ELSE IF Len(results.files) > 0
        THEN [w |-> results.w, id |-> results.files[1], err |-> Nil]
        ELSE Bind(FilesCreate(results.w, "file", fileName, parentID, media),
                  LAMBDA file :
                      IF file.err # Nil
                      THEN [w |-> file.w, id |-> EmptyId, err |-> file.err]
                      ELSE [w |-> file.w, id |-> file.id, err |-> Nil]))

\* Go maps: m[k] = v
MapPut(m, k, v) == [x \in DOMAIN m \cup {k} |-> IF x = k THEN v ELSE m[x]]

EmptyMap == [x \in {} |-> EmptyId]

NilMap == [nil |-> TRUE, kv |-> EmptyMap]

WrapErr(msg, err) == <<msg>> \o err

RECURSIVE MkdirLoop_Flat(_, _, _, _, _, _)
\* The loop of MkdirAll with every segment looked up and created under the
\* root parent instead of under the segment before it.
MkdirLoop_Flat(w, dirNames, gdriveParentId, m, prevDirID, index) ==
    IF Len(dirNames) = 0
    THEN [w |-> w, m |-> [nil |-> FALSE, kv |-> m], id |-> prevDirID, err |-> Nil]
    ELSE IF Head(dirNames) = <<>>
    THEN MkdirLoop_Flat(w, Tail(dirNames), gdriveParentId, m, prevDirID, index)
    ELSE Bind(GetOrCreateDirectory(w, Head(dirNames), gdriveParentId),
              LAMBDA newDir :
                  IF newDir.err # Nil
                  THEN [w |-> newDir.w, m |-> NilMap, id |-> EmptyId,
                        err |-> WrapErr("failed to create directory: ", newDir.err)]
                  ELSE MkdirLoop_Flat(newDir.w, Tail(dirNames), gdriveParentId,
                                      MapPut(m, Head(dirNames), newDir.id),
                                      newDir.id, index + 1))

RECURSIVE MkdirLoop_KeepsGoing(_, _, _, _, _, _)
\* The loop of MkdirAll going on with the segments that are left after a
\* failure, and reporting the failure at the end.
MkdirLoop_KeepsGoing(w, dirNames, gdriveParentId, m, prevDirID, index) ==
    IF Len(dirNames) = 0
    THEN [w |-> w, m |-> [nil |-> FALSE, kv |-> m], id |-> prevDirID, err |-> Nil]
    ELSE IF Head(dirNames) = <<>>
    THEN MkdirLoop_KeepsGoing(w, Tail(dirNames), gdriveParentId, m, prevDirID, index)
    ELSE LET prev == IF index = 0 THEN gdriveParentId ELSE prevDirID
         IN  Bind(GetOrCreateDirectory(w, Head(dirNames), prev), LAMBDA newDir :
                 IF newDir.err # Nil
                 THEN [w |-> MkdirLoop_KeepsGoing(newDir.w, Tail(dirNames),
                                                  gdriveParentId, m, prev,
                                                  index + 1).w,
                       m |-> NilMap, id |-> EmptyId,
                       err |-> WrapErr("failed to create directory: ", newDir.err)]
                 ELSE MkdirLoop_KeepsGoing(newDir.w, Tail(dirNames), gdriveParentId,
                                           MapPut(m, Head(dirNames), newDir.id),
                                           newDir.id, index + 1))

RECURSIVE MkdirLoop(_, _, _, _, _, _)
\* The loop of MkdirAll over dirNames, with its variables m, prevDirID, index.
MkdirLoop(w, dirNames, gdriveParentId, m, prevDirID, index) ==
    IF Len(dirNames) = 0
    THEN [w |-> w, m |-> [nil |-> FALSE, kv |-> m], id |-> prevDirID, err |-> Nil]
    ELSE IF Head(dirNames) = <<>>
    THEN MkdirLoop(w, Tail(dirNames), gdriveParentId, m, prevDirID, index)
    ELSE LET dirName == Head(dirNames)
             prev == IF index = 0 THEN gdriveParentId ELSE prevDirID
         IN  IF dirName \in DOMAIN w.dirCache
             THEN MkdirLoop(w, Tail(dirNames), gdriveParentId,
                            MapPut(m, dirName, w.dirCache[dirName]),
                            w.dirCache[dirName], index + 1)
             ELSE Bind(GetOrCreateDirectory(w, dirName, prev), LAMBDA newDir :
                      IF newDir.err # Nil
                      THEN [w |-> newDir.w, m |-> NilMap, id |-> EmptyId,
                            err |-> WrapErr("failed to create directory: ",
                                            newDir.err)]
                      ELSE MkdirLoop(newDir.w, Tail(dirNames), gdriveParentId,
                                     MapPut(m, dirName, newDir.id),
                                     newDir.id, index + 1))

MkdirAll(w, dirPath, gdriveParentId) ==
    MkdirLoop(w, Split(dirPath), gdriveParentId, EmptyMap, EmptyId, 0)

\* ------------------------------------------------------- local file system
ErrNotExist == <<"no such file or directory">>
ErrIO == <<"input/output error">>

\* os.Open / os.Stat of a path: fails when the path does not exist, or when
\* the fault plan says so.
OpenFile(w, path) ==
    IF path \notin DOMAIN w.fs
    THEN [w |-> w, err |-> ErrNotExist]
    ELSE IF FailsNow(w) THEN [w |-> Passed(w), err |-> ErrIO]
    ELSE [w |-> Passed(w), err |-> Nil]

\* One step of building an archive, as w.built logs it.
BuildStep(op, path, ok) == [op |-> op, path |-> path, ok |-> ok]

\* os.Create of an archive: the file exists and is empty afterwards.
CreateLocal(w, path, kind) ==
    IF FailsNow(w)
    THEN [w |-> [Passed(w) EXCEPT !.built = Append(@, BuildStep("create", path, FALSE))],
          err |-> ErrIO]
    ELSE [w |-> [Passed(w) EXCEPT !.fs = MapPut(@, path, Archive(kind, <<>>)),
                                  !.built = Append(@, BuildStep("create", path, TRUE))],
          err |-> Nil]

\* os.Remove, its error ignored.
RemoveLocal(w, path) ==
    [w EXCEPT !.fs = [x \in DOMAIN @ \ {path} |-> @[x]]]

\* addToTarArchive (header.Name = filename) and addToZipArchive (header.Name =
\* fileInfo.Name()): one entry appended to the archive being written at out.
AddToArchive(w, out, filename, entryName) ==
    Bind(OpenFile(w, filename), LAMBDA f :
        IF f.err # Nil
        THEN [w |-> [f.w EXCEPT !.built = Append(@, BuildStep("add", filename, FALSE))],
              err |-> f.err]
        ELSE [w |-> [f.w EXCEPT !.fs[out].entries =
                         Append(@, [name |-> entryName, data |-> f.w.fs[filename]]),
                                !.built = Append(@, BuildStep("add", filename, TRUE))],
              err |-> Nil])

addToTarArchive(w, out, filename) == AddToArchive(w, out, filename, filename)

\* addToZipArchive naming the entry by the path given, as the tar archive does.
addToZipArchive_FullName(w, out, filename) ==
    AddToArchive(w, out, filename, filename)

addToZipArchive(w, out, filename) == AddToArchive(w, out, filename, Base(filename))

\* CreateGZipArchive adding the first of the files only.
CreateGZipArchive_FirstOnly(w, files, out) ==
    IF Len(files) = 0 THEN [w |-> w, err |-> Nil]
    ELSE addToTarArchive(w, out, Head(files))

RECURSIVE CreateGZipArchive(_, _, _)
CreateGZipArchive(w, files, out) ==
    IF Len(files) = 0 THEN [w |-> w, err |-> Nil]
    ELSE Bind(addToTarArchive(w, out, Head(files)), LAMBDA r :
             IF r.err # Nil THEN r ELSE CreateGZipArchive(r.w, Tail(files), out))

RECURSIVE CreateZipArchive(_, _, _)
CreateZipArchive(w, files, out) ==
    IF Len(files) = 0 THEN [w |-> w, err |-> Nil]
    ELSE Bind(addToZipArchive(w, out, Head(files)), LAMBDA r :
             IF r.err # Nil THEN r ELSE CreateZipArchive(r.w, Tail(files), out))

GZip(w, files, outputTarFilename) ==
    Bind(CreateLocal(w, outputTarFilename, "tar.gz"), LAMBDA out :
        IF out.err # Nil
        THEN [w |-> out.w, err |-> WrapErr("error writing archive: ", out.err)]
        ELSE CreateGZipArchive(out.w, files, outputTarFilename))

Zip(w, files, outputZipFilename) ==
    Bind(CreateLocal(w, outputZipFilename, "zip"), LAMBDA out :
        IF out.err # Nil
        THEN [w |-> out.w, err |-> WrapErr("error writing zip file: ", out.err)]
        ELSE CreateZipArchive(out.w, files, outputZipFilename))

ErrUnsupported == <<"unsupported compression algorithm">>

\* CreateFileArchive(localPath) is CreateArchive(w, localPath, <<localPath>>),
\* CreateDirArchive(dirname, paths) is CreateArchive(w, dirname, paths).
CreateArchive(w, name, paths) ==
    IF w.compression = GZipCompression
    THEN Bind(GZip(w, paths, tarGzipFilename(name)), LAMBDA r :
             [w |-> r.w, archive |-> tarGzipFilename(name), err |-> r.err])
    ELSE IF w.compression = ZipCompression
    THEN Bind(Zip(w, paths, zipFilename(name)), LAMBDA r :
             [w |-> r.w, archive |-> zipFilename(name), err |-> r.err])
    ELSE IF w.compression = NoCompression
    THEN [w |-> w, archive |-> name, err |-> Nil]
    ELSE [w |-> [w EXCEPT !.built = Append(@, BuildStep("unsupported", name, FALSE))],
          archive |-> <<>>, err |-> ErrUnsupported]

CreateFileArchive(w, localPath) == CreateArchive(w, localPath, <<localPath>>)

CreateDirArchive(w, dirname, paths) == CreateArchive(w, dirname, paths)

\* -------------------------------------------------------------- decompress
\* A directory that was made, as an entry of the local files.
DirEntry == [kind |-> "dir", src |-> <<>>, entries |-> <<>>]

\* The directory d exists: the working directory, the root, a directory that
\* was made, or one that a file lies below.
DirExists(fs, d) ==
    \/ d = <<Dot>> \/ d = <<Sep>>
    \/ d \in DOMAIN fs /\ fs[d].kind = "dir"
    \/ \E f \in DOMAIN fs : HasPrefix(f, d \o <<Sep>>)

RECURSIVE MakeDirs(_, _)
\* The local files after path and the directories above it were made.
MakeDirs(fs, path) ==
    IF DirExists(fs, path) THEN fs
    ELSE MapPut(MakeDirs(fs, Dir(path)), path, DirEntry)

\* os.MkdirAll(path, mode)
OsMkdirAll(w, path) ==
    IF FailsNow(w) THEN [w |-> Passed(w), err |-> ErrIO]
    ELSE IF path \in DOMAIN w.fs /\ w.fs[path].kind # "dir"
    THEN [w |-> Passed(w), err |-> <<"not a directory">>]
    ELSE [w |-> [Passed(w) EXCEPT !.fs = MakeDirs(@, path)], err |-> Nil]

\* os.Create(path) of an extracted file: the directory of path must exist;
\* the file is empty afterwards.
CreateFile(w, path) ==
    IF ~DirExists(w.fs, Dir(path)) THEN [w |-> w, err |-> ErrNotExist]
    ELSE IF FailsNow(w) THEN [w |-> Passed(w), err |-> ErrIO]
    ELSE [w |-> [Passed(w) EXCEPT !.fs = MapPut(@, path, NoContent)], err |-> Nil]

\* io.Copy(file, tarReader): the file holds the entry's bytes afterwards.
CopyEntry(w, path, data) ==
    IF FailsNow(w) THEN [w |-> Passed(w), err |-> ErrIO]
    ELSE [w |-> [Passed(w) EXCEPT !.fs = MapPut(@, path, data)], err |-> Nil]

\* os.Chmod(path, mode)
Chmod(w, path) ==
    IF FailsNow(w) THEN [w |-> Passed(w), err |-> ErrIO]
    ELSE [w |-> Passed(w), err |-> Nil]

\* The body of the loop of GZipDecompress for one entry of the archive.
ExtractEntry(w, outputDir, header) ==
    LET filePath == Join(outputDir, header.name)
    IN  IF header.data.kind = "dir"
        THEN OsMkdirAll(w, filePath)
        ELSE Bind(CreateFile(w, filePath), LAMBDA file :
                 IF file.err # Nil THEN file
                 ELSE Bind(CopyEntry(file.w, filePath, header.data), LAMBDA c :
                          IF c.err # Nil THEN c ELSE Chmod(c.w, filePath)))

RECURSIVE ExtractAll(_, _, _)
\* The loop of GZipDecompress over the entries tarReader.Next() yields.
ExtractAll(w, outputDir, entries) ==
    IF Len(entries) = 0 THEN [w |-> w, err |-> Nil]
    ELSE Bind(ExtractEntry(w, outputDir, Head(entries)), LAMBDA r :
             IF r.err # Nil THEN r ELSE ExtractAll(r.w, outputDir, Tail(entries)))

GZipDecompress(w, filePath, outputDir) ==
    Bind(OpenFile(w, filePath), LAMBDA compressedFile :
        IF compressedFile.err # Nil THEN compressedFile
        ELSE IF compressedFile.w.fs[filePath].kind # "tar.gz"
        THEN [w |-> compressedFile.w, err |-> <<"gzip: invalid header">>]
        ELSE ExtractAll(compressedFile.w, outputDir,
                        compressedFile.w.fs[filePath].entries))

\* file.Open() of an entry of a zip archive: it can fail.
OpenEntry(w) ==
    IF FailsNow(w) THEN [w |-> Passed(w), err |-> ErrIO]
    ELSE [w |-> Passed(w), err |-> Nil]

\* The body of the loop of UnZip for one entry of the archive.
UnZipEntry(w, destDir, file) ==
    LET filePath == Join(destDir, file.name)
    IN  IF file.data.kind = "dir"
        THEN OsMkdirAll(w, filePath)
        ELSE Bind(CreateFile(w, filePath), LAMBDA fileToExtract :
                 IF fileToExtract.err # Nil THEN fileToExtract
                 ELSE Bind(OpenEntry(fileToExtract.w), LAMBDA fileInArchive :
                          IF fileInArchive.err # Nil THEN fileInArchive
                          ELSE CopyEntry(fileInArchive.w, filePath, file.data)))

RECURSIVE UnZipAll(_, _, _)
\* The loop of UnZip over zipFile.File.
UnZipAll(w, destDir, entries) ==
    IF Len(entries) = 0 THEN [w |-> w, err |-> Nil]
    ELSE Bind(UnZipEntry(w, destDir, Head(entries)), LAMBDA r :
             IF r.err # Nil THEN r ELSE UnZipAll(r.w, destDir, Tail(entries)))

UnZip(w, zipFileName, destDir) ==
    Bind(OpenFile(w, zipFileName), LAMBDA zipFile :
        IF zipFile.err # Nil THEN zipFile
        ELSE IF zipFile.w.fs[zipFileName].kind # "zip"
        THEN [w |-> zipFile.w, err |-> <<"zip: not a valid zip file">>]
        ELSE UnZipAll(zipFile.w, destDir, zipFile.w.fs[zipFileName].entries))

\* ------------------------------------------------------------------ upload
\* uploadFunc looking the file up under the name of the path it opens
\* instead of fileInfo.Name().
uploadFunc_PathName(w, localPath, infoName, drivePath) ==
    Bind(OpenFile(w, localPath), LAMBDA file :
        IF file.err # Nil
        THEN [w |-> file.w, id |-> EmptyId,
              err |-> WrapErr("failed to open local file: ", file.err)]
        ELSE GetOrCreateFile(file.w, localPath, file.w.fs[localPath], drivePath))

\* The closure uploadFunc of UploadFile; infoName is fileInfo.Name().
uploadFunc(w, localPath, infoName, drivePath) ==
    Bind(OpenFile(w, localPath), LAMBDA file :
        IF file.err # Nil
        THEN [w |-> file.w, id |-> EmptyId,
              err |-> WrapErr("failed to open local file: ", file.err)]
        ELSE GetOrCreateFile(file.w, infoName, file.w.fs[localPath], drivePath))

\* UploadFile going on to the upload when building the archive failed.
UploadFile_IgnoresBuildError(w, localPath, infoName, drivePath) ==
    IF w.compression = NoCompression
    THEN uploadFunc(w, localPath, infoName, drivePath)
    ELSE Bind(CreateFileArchive(w, localPath), LAMBDA a :
             Bind(uploadFunc(a.w, a.archive, infoName, drivePath), LAMBDA r :
                 [r EXCEPT !.w = RemoveLocal(r.w, a.archive)]))

UploadFile(w, localPath, infoName, drivePath) ==
    IF w.compression = NoCompression
    THEN uploadFunc(w, localPath, infoName, drivePath)
    ELSE Bind(CreateFileArchive(w, localPath), LAMBDA a :
             IF a.err # Nil
             THEN [w |-> a.w, id |-> EmptyId,
                   err |-> WrapErr("error compressing file: ", a.err)]
             ELSE Bind(uploadFunc(a.w, a.archive, infoName, drivePath), LAMBDA r :
                      [r EXCEPT !.w = RemoveLocal(r.w, a.archive)]))

\* files.GetAllFiles(dirname): the walk of the local tree yields, in an order
\* of its own (listing), the files under dirname; it can fail.
GetAllFiles(w, dirname, listing) ==
    IF FailsNow(w) THEN [w |-> Passed(w), files |-> <<>>, err |-> ErrIO]
    ELSE [w |-> Passed(w), files |-> listing, err |-> Nil]

RECURSIVE UploadEach_SkipsFailed(_, _, _, _, _)
\* The per-file loop going on with the next file after a file failed, and
\* reporting the failure at the end.
UploadEach_SkipsFailed(w, filePaths, dirname, drivePath, driveFiles) ==
    IF Len(filePaths) = 0
    THEN [w |-> w, files |-> driveFiles, err |-> Nil]
    ELSE LET fileName == Head(filePaths)
             relativePathDir == Dir(GetRelativePath(fileName, dirname))
             rest(w1, e) ==
                 [w |-> UploadEach_SkipsFailed(w1, Tail(filePaths), dirname,
                                               drivePath, driveFiles).w,
                  files |-> <<>>, err |-> e]
         IN  Bind(OpenFile(w, fileName), LAMBDA fileInfo :
             IF fileInfo.err # Nil
             THEN rest(fileInfo.w, WrapErr("failed to get file info: ", fileInfo.err))
             ELSE Bind(MkdirAll(fileInfo.w, relativePathDir, drivePath), LAMBDA dir :
                  IF dir.err # Nil
                  THEN rest(dir.w, WrapErr("failed to create directory: ", dir.err))
                  ELSE Bind(UploadFile(dir.w, fileName, Base(fileName), dir.id),
                            LAMBDA driveFile :
                                IF driveFile.err # Nil
                                THEN rest(driveFile.w, driveFile.err)
                                ELSE UploadEach_SkipsFailed(
                                         driveFile.w, Tail(filePaths), dirname,
                                         drivePath,
                                         Append(driveFiles, driveFile.id)))))

RECURSIVE UploadEach(_, _, _, _, _)
\* The per-file loop of UploadDirectory (svc.compression == NoCompression).
UploadEach(w, filePaths, dirname, drivePath, driveFiles) ==
    IF Len(filePaths) = 0
    THEN [w |-> w, files |-> driveFiles, err |-> Nil]
    ELSE LET fileName == Head(filePaths)
             relativePath == GetRelativePath(fileName, dirname)
             relativePathDir == Dir(relativePath)
         IN  Bind(OpenFile(w, fileName), LAMBDA fileInfo :
             IF fileInfo.err # Nil
             THEN [w |-> fileInfo.w, files |-> <<>>,
                   err |-> WrapErr("failed to get file info: ", fileInfo.err)]
             ELSE Bind(MkdirAll(fileInfo.w, relativePathDir, drivePath), LAMBDA dir :
                  IF dir.err # Nil
                  THEN [w |-> dir.w, files |-> <<>>,
                        err |-> WrapErr("failed to create directory: ", dir.err)]
                  ELSE Bind(UploadFile(dir.w, fileName, Base(fileName), dir.id),
                            LAMBDA driveFile :
                                IF driveFile.err # Nil
                                THEN [w |-> driveFile.w, files |-> <<>>,
                                      err |-> driveFile.err]
                                ELSE UploadEach(driveFile.w, Tail(filePaths),
                                                dirname, drivePath,
                                                Append(driveFiles, driveFile.id)))))

\* The else branch of UploadDirectory: one archive of the whole tree.
UploadTree(w, filePaths, dirname, drivePath) ==
    Bind(CreateDirArchive(w, Base(dirname), filePaths), LAMBDA a :
        IF a.err # Nil
        THEN [w |-> a.w, files |-> <<>>,
              err |-> WrapErr("error compressing file: ", a.err)]
        ELSE Bind(OpenFile(a.w, a.archive), LAMBDA fileInfo :
             IF fileInfo.err # Nil
             THEN [w |-> RemoveLocal(fileInfo.w, a.archive), files |-> <<>>,
                   err |-> fileInfo.err]
             ELSE Bind(UploadFile(fileInfo.w, a.archive, Base(a.archive), drivePath),
                       LAMBDA driveFile :
                           [w |-> RemoveLocal(driveFile.w, a.archive),
                            files |-> <<driveFile.id>>,
                            err |-> driveFile.err])))

\* UploadDirectory taking the per-file branch whatever the compression is.
UploadDirectory_PerFileOnly(w, dirname, drivePath, listing) ==
    Bind(GetAllFiles(w, dirname, listing), LAMBDA all :
        IF all.err # Nil
        THEN [w |-> all.w, files |-> <<>>,
              err |-> WrapErr("failed to read directory: ", all.err)]
        ELSE UploadEach(all.w, all.files, dirname, drivePath, <<>>))

UploadDirectory(w, dirname, drivePath, listing) ==
    Bind(GetAllFiles(w, dirname, listing), LAMBDA all :
        IF all.err # Nil
        THEN [w |-> all.w, files |-> <<>>,
              err |-> WrapErr("failed to read directory: ", all.err)]
        ELSE IF all.w.compression = NoCompression
        THEN UploadEach(all.w, all.files, dirname, drivePath, <<>>)
        ELSE UploadTree(all.w, all.files, dirname, drivePath))

\* NewGoogleDriveService(client, compression...): given is the variadic
\* argument, a sequence of at most one value that matters.
NewGoogleDriveService(given) ==
    IF Len(given) > 0 /\ given[1] >= NoCompression /\ given[1] <= ZipCompression
    THEN given[1]
    ELSE NoCompression

\* ----------------------------------------------------- command line program
\* A directory exists when a file lies below it.
IsDir(w, path) == \E f \in DOMAIN w.fs : HasPrefix(f, path \o <<Sep>>)

\* os.Stat(localPath) of upload.
StatPath(w, path) ==
    IF path \notin DOMAIN w.fs /\ ~IsDir(w, path)
    THEN [w |-> w, isDir |-> FALSE, err |-> ErrNotExist]
    ELSE IF FailsNow(w) THEN [w |-> Passed(w), isDir |-> FALSE, err |-> ErrIO]
    ELSE [w |-> Passed(w), isDir |-> IsDir(w, path), err |-> Nil]

RECURSIVE upload(_, _, _, _, _)
\* upload(svc, drivePathID, localPaths...): errs collects what UploadDirectory
\* and UploadFile returned as error, which upload does not look at.  The
\* result is how the process goes on: exit 0 is "runs on to the end of main".
upload(w, drivePathID, localPaths, listing, errs) ==
    IF Len(localPaths) = 0
    THEN [w |-> w, exit |-> 0, printed |-> <<>>, errs |-> errs]
    ELSE LET localPath == Head(localPaths)
         IN  Bind(StatPath(w, localPath), LAMBDA fi :
             IF fi.err # Nil
             THEN [w |-> fi.w, exit |-> 1,
                   printed |-> <<WrapErr("Failed to get path info: ", fi.err)>>,
                   errs |-> errs]
             ELSE IF fi.isDir
             THEN Bind(UploadDirectory(fi.w, localPath, drivePathID, listing),
                       LAMBDA r : upload(r.w, drivePathID, Tail(localPaths), listing,
                                         Append(errs, r.err)))
             ELSE Bind(UploadFile(fi.w, localPath, Base(localPath), drivePathID),
                       LAMBDA r : upload(r.w, drivePathID, Tail(localPaths), listing,
                                         Append(errs, r.err))))

\* authSvc.GetClient(): it can fail.
GetClient(w) ==
    IF FailsNow(w) THEN [w |-> Passed(w), err |-> <<"unable to get client">>]
    ELSE [w |-> Passed(w), err |-> Nil]

\* The compression main passes on: the zero value of Compession unless a flag
\* is set.
FlagCompression(GZipCompress, ZipCompress) ==
    IF GZipCompress THEN GZipCompression
    ELSE IF ZipCompress THEN ZipCompression
    ELSE 0

\* main with the flags -gzip and -zip and the positional arguments args
\* (flag.Arg(0) is the drive folder id, the others the local paths).
main(w, GZipCompress, ZipCompress, args, listing) ==
    IF Len(args) < 2
    THEN [w |-> w, exit |-> 1, printed |-> <<<<"Usage">>>>, errs |-> <<>>]
    ELSE LET drivePathID == args[1]
             localPaths == NonEmpty(Tail(args))
         IN  Bind(GetClient(w), LAMBDA client :
             IF client.err # Nil
             THEN [w |-> client.w, exit |-> 1,
                   printed |-> <<WrapErr("Failed to create Drive client: ",
                                         client.err)>>,
                   errs |-> <<>>]
             ELSE LET compression0 == FlagCompression(GZipCompress, ZipCompress)
                      svc == [client.w EXCEPT !.compression =
                                 NewGoogleDriveService(<<compression0>>)]
                  IN  upload(svc, drivePathID, localPaths, listing, <<>>))

\* ------------------------------------------------- byte-range downloads
DigitChars == <<"0", "1", "2", "3", "4", "5", "6", "7", "8", "9">>

RECURSIVE FormatNat(_)
\* The decimal digits of a natural number.
FormatNat(n) ==
    IF n < 10 THEN <<DigitChars[n + 1]>>
    ELSE Append(FormatNat(n \div 10), DigitChars[(n % 10) + 1])

\* fmt.Sprintf("%d", n)
FormatInt(n) == IF n < 0 THEN <<"-">> \o FormatNat(0 - n) ELSE FormatNat(n)

\* fmt.Sprintf("bytes=%d-%d", StartByte, EndByte)
RangeHeader(StartByte, EndByte) ==
    <<"b", "y", "t", "e", "s", "=">> \o FormatInt(StartByte) \o <<"-">>
        \o FormatInt(EndByte)

DigitValue(c) == (CHOOSE d \in DOMAIN DigitChars : DigitChars[d] = c) - 1

IsDigit(c) == \E d \in DOMAIN DigitChars : DigitChars[d] = c

RECURSIVE ParseNat(_, _)
\* The number the digits of s spell, acc being the value read so far; -1
\* when s holds something else than a digit.
ParseNat(s, acc) ==
    IF Len(s) = 0 THEN acc
    ELSE IF ~IsDigit(Head(s)) THEN -1
    ELSE ParseNat(Tail(s), acc * 10 + DigitValue(Head(s)))

RECURSIVE IndexOf(_, _, _)
\* The first position at or after i where s holds c, 0 when there is none.
IndexOf(s, c, i) ==
    IF i > Len(s) THEN 0 ELSE IF s[i] = c THEN i ELSE IndexOf(s, c, i + 1)

\* How the service reads a Range header "bytes=<first>-<last>": the two
\* positions, or ok = FALSE when the header is not of this form.
ParseRange(header) ==
    LET dash == IndexOf(header, "-", 7)
        first == IF dash > 7 THEN ParseNat(SubSeq(header, 7, dash - 1), 0) ELSE -1
        last == IF dash > 0 /\ dash < Len(header)
                THEN ParseNat(SubSeq(header, dash + 1, Len(header)), 0) ELSE -1
    IN  [ok |-> /\ Len(header) > 6
                /\ SubSeq(header, 1, 6) = <<"b", "y", "t", "e", "s", "=">>
                /\ first >= 0 /\ last >= first,
         first |-> first, last |-> last]

\* The size in bytes of every file and revision the service holds.
FileSize == 8

StatusOK == 200
StatusNoContent == 204
StatusPartialContent == 206

Min(a, b) == IF a < b THEN a ELSE b

\* call.Download() of Revisions.Get(fileID, revisionID) with a Range header:
\* the request is logged; the transport can fail; the service answers with
\* the range (206), with the whole content (200, the header ignored), with
\* another 2xx status, or with a status that Download turns into an error
\* (a range that starts past the end of the content).
Download(w, fileID, revisionID, rangeHeader, answer) ==
    LET ok == ~FailsNow(w)
        r == ParseRange(rangeHeader)
        call == [op |-> "revisions.get", fileID |-> fileID,
                 revisionID |-> revisionID, range |-> rangeHeader, ok |-> ok]
        w1 == [Passed(w) EXCEPT !.calls = Append(@, call)]
    IN  IF ~ok
        THEN [w |-> w1, status |-> 0, body |-> 0, err |-> <<"transport error">>]
        ELSE IF answer = "full"
        THEN [w |-> w1, status |-> StatusOK, body |-> FileSize, err |-> Nil]
        ELSE IF answer = "other"
        THEN [w |-> w1, status |-> StatusNoContent, body |-> 0, err |-> Nil]
        ELSE IF ~r.ok \/ r.first >= FileSize
        THEN [w |-> w1, status |-> 0, body |-> 0,
              err |-> <<"googleapi: Error 416">>]
        ELSE [w |-> w1, status |-> StatusPartialContent,
              body |-> Min(r.last, FileSize - 1) - r.first + 1, err |-> Nil]

\* io.Copy(w, resp.Body): the number of bytes written; it can fail.
Copy(w, body) ==
    IF FailsNow(w) THEN [w |-> Passed(w), written |-> 0, err |-> ErrIO]
    ELSE [w |-> Passed(w), written |-> body, err |-> Nil]

\* What PartialDownloadFile and PartialDownloadRevision do once the
\* arguments are accepted, with the revision they ask for.
RangeDownload(w, fileID, revisionID, opts, answer) ==
    Bind(Download(w, fileID, revisionID,
                  RangeHeader(opts.StartByte, opts.EndByte), answer),
         LAMBDA resp :
             IF resp.err # Nil
             THEN [w |-> resp.w, written |-> 0,
                   err |-> WrapErr("unable to download revision: ", resp.err)]
             ELSE IF resp.status # StatusPartialContent /\ resp.status # StatusOK
             THEN [w |-> resp.w, written |-> 0,
                   err |-> <<"unexpected status code: ", resp.status>>]
             ELSE Bind(Copy(resp.w, resp.body), LAMBDA c :
                      IF c.err # Nil
                      THEN [w |-> c.w, written |-> c.written,
                            err |-> WrapErr("unable to write revision content: ",
                                            c.err)]
                      ELSE [w |-> c.w, written |-> c.written, err |-> Nil]))

\* RangeDownload without the checks of the byte positions.
PartialDownloadFile_Unchecked(w, fileID, opts, answer) ==
    IF fileID = <<>>
    THEN [w |-> w, written |-> 0, err |-> <<"file ID cannot be empty">>]
    ELSE RangeDownload(w, fileID, fileID, opts, answer)

PartialDownloadFile(w, fileID, opts, answer) ==
    IF fileID = <<>>
    THEN [w |-> w, written |-> 0, err |-> <<"file ID cannot be empty">>]
    ELSE IF opts.StartByte < 0 \/ opts.EndByte < 0
    THEN [w |-> w, written |-> 0, err |-> <<"byte positions cannot be negative">>]
    ELSE IF opts.StartByte > opts.EndByte
    THEN [w |-> w, written |-> 0,
          err |-> <<"start byte must be less than or equal to end byte">>]
    ELSE RangeDownload(w, fileID, fileID, opts, answer)

PartialStreamFile(w, fileID, startByte, endByte, answer) ==
    PartialDownloadFile(w, fileID, [StartByte |-> startByte, EndByte |-> endByte],
                        answer)

PartialDownloadRevision(w, fileID, revisionID, opts, answer) ==
    IF fileID = <<>>
    THEN [w |-> w, written |-> 0, err |-> <<"file ID cannot be empty">>]
    ELSE IF revisionID = <<>>
    THEN [w |-> w, written |-> 0, err |-> <<"revision ID cannot be empty">>]
    ELSE IF opts.StartByte < 0 \/ opts.EndByte < 0
    THEN [w |-> w, written |-> 0, err |-> <<"byte positions cannot be negative">>]
    ELSE IF opts.StartByte > opts.EndByte
    THEN [w |-> w, written |-> 0,
          err |-> <<"start byte must be less than or equal to end byte">>]
    ELSE RangeDownload(w, fileID, revisionID, opts, answer)

\* ------------------------------------------------------------------ inputs
P == 1
Q == 2
Parents == {P, Q}

Folder(name, parent, trashed) ==
    [name |-> name, parent |-> parent, mime |-> "folder", trashed |-> trashed,
     content |-> NoContent]

RemoteFile(name, parent, trashed) ==
    [name |-> name, parent |-> parent, mime |-> "file", trashed |-> trashed,
     content |-> Bytes(name)]

\* What the drive holds before the run: the two target folders P and Q, a file
\* "a.txt" and a folder "a" under P, and the same two in the trash under Q.
InitialRemote ==
    <<Folder(<<"P">>, EmptyId, FALSE),
      Folder(<<"Q">>, EmptyId, FALSE),
      RemoteFile(<<"a.txt">>, P, FALSE),
      Folder(<<"a">>, P, FALSE),
      RemoteFile(<<"a.txt">>, Q, TRUE),
      Folder(<<"a">>, Q, TRUE)>>

ReadmePath == <<"root", Sep, "docs", Sep, "readme.txt">>
NotesPath == <<"root", Sep, "docs", Sep, "sub", Sep, "notes.txt">>
LocalFiles == {<<"a.txt">>, <<"b.txt">>, ReadmePath, NotesPath}
MissingPath == <<"missing.txt">>

DirPaths ==
    {<<>>,
     <<"a">>,
     <<"a", Sep, "b", Sep, "c">>,
     <<"a", Sep, "v1">>,
     <<"b", Sep, "v1">>,
     <<Sep, "a", Sep, Sep, "b", Sep>>}

FileNames == {<<"a.txt">>, <<"a">>, <<"b.txt">>}

UploadPaths == {<<"a.txt">>, <<"b.txt">>, ReadmePath}

DirNames == {<<"root">>}

Listings == {<<ReadmePath, NotesPath>>, <<NotesPath, ReadmePath>>}

Given == {<<>>, <<NoCompression>>, <<0>>, <<GZipCompression>>, <<ZipCompression>>, <<3>>}

\* ------------------------------------------------------------ state machine
Init ==
    /\ remote = InitialRemote
    /\ calls = <<>>
    /\ fsFiles = [p \in LocalFiles |-> Bytes(p)]
    /\ dirCache = EmptyMap
    /\ \E given \in Given : compression = NewGoogleDriveService(given)
    /\ ops = <<>>
    /\ auth = AuthOff
    /\ callers = NoCallers

World(fail) ==
    [remote |-> remote, calls |-> calls, fs |-> fsFiles, dirCache |-> dirCache,
     compression |-> compression, fail |-> fail, steps |-> 0, built |-> <<>>]

\* The record of one finished operation: its arguments, the remote and the
\* local files it started from and left, the calls it issued
\* (calls[first..last]), what it returned, the fallible step that failed
\* (fail, 0 when none did), the number of fallible steps it took and the
\* archive-building steps among them.
OpRecord(op, arg, parent, listing, r, id, files, m, fail) ==
    [op |-> op, arg |-> arg, parent |-> parent, listing |-> listing,
     pre |-> remote, fsPre |-> fsFiles, first |-> Len(calls) + 1,
     last |-> Len(r.w.calls), id |-> id, files |-> files, m |-> m, err |-> r.err,
     fail |-> fail, steps |-> r.w.steps, fsPost |-> r.w.fs, built |-> r.w.built]

Commit(w, rec) ==
    /\ remote' = w.remote
    /\ calls' = w.calls
    /\ fsFiles' = w.fs
    /\ dirCache' = w.dirCache
    /\ compression' = w.compression
    /\ ops' = Append(ops, rec)
    /\ UNCHANGED <<auth, callers>>

\* Each operation runs with every fault plan: no failure (0), or a failure at
\* one of the fallible steps its failure-free run takes.
CallMkdirAll ==
    /\ Len(ops) < MaxOps
    /\ \E dirPath \in DirPaths, parent \in Parents :
        \E fail \in 0..MkdirAll(World(0), dirPath, parent).w.steps :
            \E r \in {MkdirAll(World(fail), dirPath, parent)} :
                Commit(r.w, OpRecord("MkdirAll", dirPath, parent, <<>>, r, r.id,
                                     <<>>, r.m, fail))

CallGetOrCreateFile ==
    /\ Len(ops) < MaxOps
    /\ \E fileName \in FileNames, parent \in Parents :
        \E fail \in 0..GetOrCreateFile(World(0), fileName, Bytes(fileName), parent).w.steps :
            \E r \in {GetOrCreateFile(World(fail), fileName, Bytes(fileName), parent)} :
                Commit(r.w, OpRecord("GetOrCreateFile", fileName, parent, <<>>, r,
                                     r.id, <<>>, NilMap, fail))

CallUploadFile ==
    /\ Len(ops) < MaxOps
    /\ \E localPath \in UploadPaths, parent \in Parents :
        \E fail \in 0..UploadFile(World(0), localPath, Base(localPath), parent).w.steps :
            \E r \in {UploadFile(World(fail), localPath, Base(localPath), parent)} :
                Commit(r.w, OpRecord("UploadFile", localPath, parent, <<>>, r, r.id,
                                     <<>>, NilMap, fail))

CallUploadDirectory ==
    /\ Len(ops) < MaxOps
    /\ \E dirname \in DirNames, listing \in Listings :
        \E fail \in 0..UploadDirectory(World(0), dirname, Q, listing).w.steps :
            \E r \in {UploadDirectory(World(fail), dirname, Q, listing)} :
                Commit(r.w, OpRecord("UploadDirectory", dirname, Q, listing, r,
                                     EmptyId, r.files, NilMap, fail))

\* The directory materializer alone, which does not read svc.compression:
\* the service is the one NewGoogleDriveService(client) builds.
InitResolver ==
    /\ remote = InitialRemote
    /\ calls = <<>>
    /\ fsFiles = [p \in LocalFiles |-> Bytes(p)]
    /\ dirCache = EmptyMap
    /\ compression = NewGoogleDriveService(<<>>)
    /\ ops = <<>>
    /\ auth = AuthOff
    /\ callers = NoCallers

NextResolver == CallMkdirAll

SpecResolver == InitResolver /\ [][NextResolver]_vars

\* The dedup upload of single files.
NextUpload == CallGetOrCreateFile \/ CallUploadFile

SpecUpload == Init /\ [][NextUpload]_vars

\* The directory upload orchestrator.
NextOrchestrator == CallUploadDirectory

SpecOrchestrator == Init /\ [][NextOrchestrator]_vars

\* The compression selector alone.
ArchivePaths == {<<"a.txt">>, ReadmePath, MissingPath}

CallCreateFileArchive ==
    /\ Len(ops) < MaxOps
    /\ \E localPath \in ArchivePaths :
        \E fail \in 0..CreateFileArchive(World(0), localPath).w.steps :
            \E r \in {CreateFileArchive(World(fail), localPath)} :
                Commit(r.w, OpRecord("CreateFileArchive", localPath, EmptyId,
                                     <<localPath>>, r, EmptyId, <<>>, NilMap, fail)
                            @@ [archive |-> r.archive])

CallCreateDirArchive ==
    /\ Len(ops) < MaxOps
    /\ \E dirname \in DirNames, paths \in Listings :
        \E fail \in 0..CreateDirArchive(World(0), dirname, paths).w.steps :
            \E r \in {CreateDirArchive(World(fail), dirname, paths)} :
                Commit(r.w, OpRecord("CreateDirArchive", dirname, EmptyId, paths, r,
                                     EmptyId, <<>>, NilMap, fail)
                            @@ [archive |-> r.archive])

\* Uploads of single files and of directories.
NextTransfer == CallUploadFile \/ CallUploadDirectory

SpecTransfer == Init /\ [][NextTransfer]_vars

NextArchive == CallCreateFileArchive \/ CallCreateDirArchive

SpecArchive == Init /\ [][NextArchive]_vars

\* Archiving local files and extracting the archive.
XPath == <<"x">>
DirYPath == <<"dir", Sep, "y">>
OutDir == <<"out">>
TarPath == tarGzipFilename(<<"t">>)
ZipPath == zipFilename(<<"t">>)
ArchiveInputs == {<<XPath, DirYPath>>, <<DirYPath, XPath>>, <<XPath>>}
OutputDirs == {OutDir, <<Dot>>}

\* The local files x and dir/y and the empty directory out.
InitRoundTrip ==
    /\ remote = InitialRemote
    /\ calls = <<>>
    /\ fsFiles = [p \in {XPath, DirYPath, OutDir} |->
                     IF p = OutDir THEN DirEntry ELSE Bytes(p)]
    /\ dirCache = EmptyMap
    /\ compression = NewGoogleDriveService(<<>>)
    /\ ops = <<>>
    /\ auth = AuthOff
    /\ callers = NoCallers

CallGZip ==
    /\ Len(ops) < MaxOps
    /\ \E files \in ArchiveInputs :
        \E fail \in 0..GZip(World(0), files, TarPath).w.steps :
            \E r \in {GZip(World(fail), files, TarPath)} :
                Commit(r.w, OpRecord("GZip", TarPath, EmptyId, files, r, EmptyId,
                                     <<>>, NilMap, fail))

CallZip ==
    /\ Len(ops) < MaxOps
    /\ \E files \in ArchiveInputs :
        \E fail \in 0..Zip(World(0), files, ZipPath).w.steps :
            \E r \in {Zip(World(fail), files, ZipPath)} :
                Commit(r.w, OpRecord("Zip", ZipPath, EmptyId, files, r, EmptyId,
                                     <<>>, NilMap, fail))

CallGZipDecompress ==
    /\ Len(ops) < MaxOps
    /\ \E filePath \in {TarPath, ZipPath}, outputDir \in OutputDirs :
        \E fail \in 0..GZipDecompress(World(0), filePath, outputDir).w.steps :
            \E r \in {GZipDecompress(World(fail), filePath, outputDir)} :
                Commit(r.w, OpRecord("GZipDecompress", filePath, EmptyId,
                                     <<outputDir>>, r, EmptyId, <<>>, NilMap, fail))

CallUnZip ==
    /\ Len(ops) < MaxOps
    /\ \E zipFileName \in {TarPath, ZipPath}, destDir \in OutputDirs :
        \E fail \in 0..UnZip(World(0), zipFileName, destDir).w.steps :
            \E r \in {UnZip(World(fail), zipFileName, destDir)} :
                Commit(r.w, OpRecord("UnZip", zipFileName, EmptyId, <<destDir>>, r,
                                     EmptyId, <<>>, NilMap, fail))

NextRoundTrip == CallGZip \/ CallZip \/ CallGZipDecompress \/ CallUnZip

SpecRoundTrip == InitRoundTrip /\ [][NextRoundTrip]_vars

\* Byte-range downloads.
BytePositions == {-1, 0, 5, 10}
FileIds == {<<>>, <<"f1">>}
RevisionIds == {<<>>, <<"r1">>}
Answers == {"range", "full", "other"}

DownloadRecord(op, fileID, revisionID, opts, r, fail) ==
    [op |-> op, fileID |-> fileID, revisionID |-> revisionID,
     StartByte |-> opts.StartByte, EndByte |-> opts.EndByte,
     first |-> Len(calls) + 1, last |-> Len(r.w.calls),
     written |-> r.written, err |-> r.err, fail |-> fail]

CallPartialDownloadFile ==
    /\ Len(ops) < MaxDownloads
    /\ \E fileID \in FileIds, s \in BytePositions, e \in BytePositions,
          answer \in Answers :
        LET opts == [StartByte |-> s, EndByte |-> e]
        IN  \E fail \in 0..PartialDownloadFile(World(0), fileID, opts, answer).w.steps :
                \E r \in {PartialDownloadFile(World(fail), fileID, opts, answer)} :
                    Commit(r.w, DownloadRecord("PartialDownloadFile", fileID, <<>>,
                                               opts, r, fail))

CallPartialStreamFile ==
    /\ Len(ops) < MaxDownloads
    /\ \E fileID \in FileIds, s \in BytePositions, e \in BytePositions,
          answer \in Answers :
        \E fail \in 0..PartialStreamFile(World(0), fileID, s, e, answer).w.steps :
            \E r \in {PartialStreamFile(World(fail), fileID, s, e, answer)} :
                Commit(r.w, DownloadRecord("PartialStreamFile", fileID, <<>>,
                                           [StartByte |-> s, EndByte |-> e], r, fail))

CallPartialDownloadRevision ==
    /\ Len(ops) < MaxDownloads
    /\ \E fileID \in FileIds, revisionID \in RevisionIds, s \in BytePositions,
          e \in BytePositions, answer \in Answers :
        LET opts == [StartByte |-> s, EndByte |-> e]
        IN  \E fail \in 0..PartialDownloadRevision(World(0), fileID, revisionID,
                                                  opts, answer).w.steps :
                \E r \in {PartialDownloadRevision(World(fail), fileID, revisionID,
                                                  opts, answer)} :
                    Commit(r.w, DownloadRecord("PartialDownloadRevision", fileID,
                                               revisionID, opts, r, fail))

NextDownload ==
    CallPartialDownloadFile \/ CallPartialStreamFile \/ CallPartialDownloadRevision

\* The download client keeps no state of its own: no request issued yet.
InitDownload ==
    /\ remote = InitialRemote
    /\ calls = <<>>
    /\ fsFiles = [p \in LocalFiles |-> Bytes(p)]
    /\ dirCache = EmptyMap
    /\ compression = NewGoogleDriveService(<<>>)
    /\ ops = <<>>
    /\ auth = AuthOff
    /\ callers = NoCallers

SpecDownload == InitDownload /\ [][NextDownload]_vars

\* The command line program: gdrive [-gzip] [-zip] Q <local paths>.
CliArgs ==
    {<<Q>>,
     <<Q, <<"b.txt">>>>,
     <<Q, <<"b.txt">>, <<"a.txt">>>>,
     <<Q, <<"root">>, <<"b.txt">>>>,
     <<Q, MissingPath, <<"b.txt">>>>,
     <<Q, <<>>, <<"a.txt">>>>}

CliFlags == {<<FALSE, FALSE>>, <<TRUE, FALSE>>, <<FALSE, TRUE>>, <<TRUE, TRUE>>}

\* Before main runs no service is built: compression shows the default of
\* NewGoogleDriveService until main stores the one of its service.
InitCli ==
    /\ remote = InitialRemote
    /\ calls = <<>>
    /\ fsFiles = [p \in LocalFiles |-> Bytes(p)]
    /\ dirCache = EmptyMap
    /\ compression = NewGoogleDriveService(<<>>)
    /\ ops = <<>>
    /\ auth = AuthOff
    /\ callers = NoCallers

\* One run of the program, from main to the end of the process.
RunMain ==
    /\ Len(ops) < MaxRuns
    /\ \E flags \in CliFlags, args \in CliArgs, listing \in Listings :
        \E fail \in 0..main(World(0), flags[1], flags[2], args, listing).w.steps :
            \E r \in {main(World(fail), flags[1], flags[2], args, listing)} :
                Commit(r.w,
                       [op |-> "main", flags |-> flags, args |-> args,
                        listing |-> listing, pre |-> remote, fsPre |-> fsFiles,
                        first |-> Len(calls) + 1, last |-> Len(r.w.calls),
                        exit |-> r.exit, printed |-> r.printed, errs |-> r.errs,
                        compression |-> r.w.compression,
                        fail |-> fail, steps |-> r.w.steps])

NextCli == RunMain

SpecCli == InitCli /\ [][NextCli]_vars

\* -------------------------------------------------------------- token flow
\* getToken runs on the main goroutine (auth.pc is its position); Run and the
\* handlers it serves run on goroutines of their own (auth.srv, and
\* auth.handler[h] for each callback request h).  tokenChan is unbuffered, so
\* a send and a receive happen together.  log.Fatalf ends the whole process.
\* auth.io is the log of the file operations of getToken and their outcomes.
MaxRequests == 2
Requests == 1..MaxRequests
Codes == {"code", ""}
TokenFiles == {"missing", "corrupt", "old"}
NoToken == "none"
NewToken == "new"

Other == UNCHANGED <<remote, calls, fsFiles, dirCache, compression, ops, callers>>

AuthStart(file) ==
    [pc |-> "getToken", tokenFile |-> file, result |-> NoToken, err |-> FALSE,
     chan |-> "none", ctx |-> "none", srv |-> "off",
     handler |-> [h \in Requests |-> "none"], code |-> [h \in Requests |-> ""],
     received |-> <<>>, sent |-> 0, panics |-> 0, exited |-> FALSE,
     file0 |-> file, io |-> <<>>]

Running == auth.pc # "off" /\ ~auth.exited

\* log.Fatalf: print, then os.Exit(1); every goroutine stops where it is.
Fatalf_Returns(a) == [a EXCEPT !.pc = "exchange"]

Fatalf(a) == [a EXCEPT !.pc = "fatal", !.exited = TRUE]

\* tokenFromFile as getToken uses it: the stored token when the file opens
\* and decodes, and an error otherwise.
tokenFromFile(file, opens) ==
    IF ~opens \/ file = "missing" THEN [token |-> NoToken, err |-> TRUE]
    ELSE IF file = "corrupt" THEN [token |-> "empty", err |-> TRUE]
    ELSE [token |-> file, err |-> FALSE]

\* saveToken: os.Create truncates the file, Encode writes the token.
saveToken_IgnoresError(file, token, creates, encodes) ==
    IF ~creates THEN [file |-> file, err |-> FALSE]
    ELSE IF ~encodes THEN [file |-> "corrupt", err |-> FALSE]
    ELSE [file |-> token, err |-> FALSE]

saveToken(file, token, creates, encodes) ==
    IF ~creates THEN [file |-> file, err |-> TRUE]
    ELSE IF ~encodes THEN [file |-> "corrupt", err |-> TRUE]
    ELSE [file |-> token, err |-> FALSE]

\* getToken, first half: the token of the file, or on to the web flow.
getToken ==
    /\ Running /\ auth.pc = "getToken"
    /\ \E opens \in BOOLEAN :
        \E r \in {tokenFromFile(auth.tokenFile, opens)} :
            auth' = IF ~r.err
                    THEN [auth EXCEPT !.pc = "returned", !.result = r.token,
                                      !.io = Append(@, [op |-> "open", ok |-> opens])]
                    ELSE [auth EXCEPT !.pc = "web",
                                      !.io = Append(@, [op |-> "open", ok |-> opens])]
    /\ Other

\* getTokenFromWeb up to the select: the channel, the two-minute context and
\* the goroutine of Run.
getTokenFromWeb ==
    /\ Running /\ auth.pc = "web"
    /\ auth' = [auth EXCEPT !.pc = "select", !.chan = "open", !.ctx = "live",
                            !.srv = "starting"]
    /\ Other

\* Run: ListenAndServe binds the port and serves, or fails at once; in the
\* second case Run logs the error and returns.
ListenAndServe ==
    /\ Running /\ auth.srv = "starting"
    /\ \E binds \in BOOLEAN :
        auth' = [auth EXCEPT !.srv = IF binds THEN "listening" ELSE "returned"]
    /\ Other

\* A callback request is accepted; its handler reads the code parameter and
\* stands at the send.
Request(h) ==
    /\ Running /\ auth.srv = "listening" /\ auth.handler[h] = "none"
    /\ \E c \in Codes :
        auth' = [auth EXCEPT !.handler[h] = "send", !.code[h] = c]
    /\ Other

\* The handler's send meets the receive case of the select.
Receive(h) ==
    /\ Running /\ auth.handler[h] = "send" /\ auth.pc = "select"
    /\ auth.chan = "open"
    /\ auth' = [auth EXCEPT !.handler[h] = "respond", !.pc = "exchange",
                            !.received = Append(@, auth.code[h]), !.sent = @ + 1]
    /\ Other

\* The two minutes pass.
Expire ==
    /\ Running /\ auth.ctx = "live"
    /\ auth' = [auth EXCEPT !.ctx = "done"]
    /\ Other

\* The ctx.Done case of the select: close(tokenChan) ...
SelectDone ==
    /\ Running /\ auth.pc = "select" /\ auth.ctx = "done"
    /\ auth' = [auth EXCEPT !.pc = "closed", !.chan = "closed"]
    /\ Other

\* ... and then log.Fatalf.
Timeout ==
    /\ Running /\ auth.pc = "closed"
    /\ auth' = Fatalf(auth)
    /\ Other

\* A send on the closed channel panics, whether the handler reached the send
\* before the close or after it; net/http recovers the panic of a handler.
SendOnClosed(h) ==
    /\ Running /\ auth.handler[h] = "send" /\ auth.chan = "closed"
    /\ auth' = [auth EXCEPT !.handler[h] = "panicked", !.panics = @ + 1]
    /\ Other

\* The handler writes its response.
Respond(h) ==
    /\ Running /\ auth.handler[h] = "respond"
    /\ auth' = [auth EXCEPT !.handler[h] = "shutdown"]
    /\ Other

\* srv.Shutdown(ctx), called by the handler: the listener closes, so
\* ListenAndServe returns ErrServerClosed and Run returns; Shutdown itself
\* goes on waiting for the connections to become idle.
Shutdown(h) ==
    /\ Running /\ auth.handler[h] = "shutdown"
    /\ auth' = [auth EXCEPT !.handler[h] = "waiting",
                            !.srv = IF @ = "listening" THEN "returned" ELSE @]
    /\ Other

\* The connection of the handler is never idle, so Shutdown returns when
\* ctx is done.
ShutdownReturns(h) ==
    /\ Running /\ auth.handler[h] = "waiting" /\ auth.ctx = "done"
    /\ auth' = [auth EXCEPT !.handler[h] = "done"]
    /\ Other

\* config.Exchange: a token (the deferred cancelFunc runs on return), or
\* log.Fatalf.
Exchange ==
    /\ Running /\ auth.pc = "exchange"
    /\ \E ok \in BOOLEAN :
        auth' = IF ok THEN [auth EXCEPT !.pc = "save", !.result = NewToken,
                                        !.ctx = "done"]
                ELSE Fatalf(auth)
    /\ Other

\* getToken, second half: the dead nil check, saveToken, return.
getTokenSave ==
    /\ Running /\ auth.pc = "save"
    /\ \E creates \in BOOLEAN, encodes \in BOOLEAN :
        \E r \in {saveToken(auth.tokenFile, auth.result, creates, encodes)} :
            auth' = IF r.err
                    THEN [auth EXCEPT !.pc = "returned", !.tokenFile = r.file,
                                      !.result = NoToken, !.err = TRUE,
                                      !.io = Append(@, [op |-> "save",
                                                        ok |-> creates /\ encodes])]
                    ELSE [auth EXCEPT !.pc = "returned", !.tokenFile = r.file,
                                      !.io = Append(@, [op |-> "save",
                                                        ok |-> creates /\ encodes])]
    /\ Other

\* The program ends some time after getToken has returned.
ProcessEnds ==
    /\ Running /\ auth.pc = "returned"
    /\ auth' = [auth EXCEPT !.exited = TRUE]
    /\ Other

InitAuth ==
    /\ remote = InitialRemote
    /\ calls = <<>>
    /\ fsFiles = [p \in LocalFiles |-> Bytes(p)]
    /\ dirCache = EmptyMap
    /\ compression = NewGoogleDriveService(<<>>)
    /\ ops = <<>>
    /\ \E file \in TokenFiles : auth = AuthStart(file)
    /\ callers = NoCallers

Waiter == getToken \/ getTokenFromWeb \/ SelectDone \/ Timeout \/ Exchange
              \/ getTokenSave \/ ProcessEnds

Handler(h) == Request(h) \/ Receive(h) \/ SendOnClosed(h) \/ Respond(h)
                  \/ Shutdown(h) \/ ShutdownReturns(h)

NextAuth == Waiter \/ ListenAndServe \/ Expire \/ \E h \in Requests : Handler(h)

SpecAuth == InitAuth /\ [][NextAuth]_vars

\* The scheduler runs every goroutine that can take a step, and the two
\* minutes do pass; whether a callback request ever arrives is up to the user.
HandlerStep(h) == Receive(h) \/ SendOnClosed(h) \/ Respond(h) \/ Shutdown(h)
                      \/ ShutdownReturns(h)

SpecAuthLive ==
    /\ SpecAuth
    /\ WF_vars(Waiter)
    /\ WF_vars(ListenAndServe)
    /\ WF_vars(Expire)
    /\ \A h \in Requests : WF_vars(HandlerStep(h))

\* --------------------------------------------------------- concurrent calls
\* GetOrCreateFile takes no lock: between its existence check and its
\* creation call other callers may run.  callers[c].pc is the position of
\* caller c; listed and created are the positions of its two remote calls in
\* the call log.
MaxCallers == 2
Callers == 1..MaxCallers

IdleCaller ==
    [pc |-> "idle", fileName |-> <<>>, parentID |-> EmptyId, listed |-> 0,
     created |-> 0, id |-> EmptyId, err |-> Nil]

\* Where GetOrCreateFile goes after the list call returned.
AfterCheck_AlwaysCreates(results) ==
    IF results.err # Nil THEN "failed" ELSE "create"

AfterCheck(results) ==
    IF results.err # Nil THEN "failed"
    ELSE IF Len(results.files) > 0 THEN "found"
    ELSE "create"

Frame == UNCHANGED <<fsFiles, dirCache, compression, ops, auth>>

Begin(c) ==
    /\ callers[c].pc = "idle"
    /\ \E fileName \in FileNames, parentID \in Parents :
        callers' = [callers EXCEPT ![c] = [@ EXCEPT !.pc = "check",
                                                    !.fileName = fileName,
                                                    !.parentID = parentID]]
    /\ UNCHANGED <<remote, calls>>
    /\ Frame

\* The existence check: Files.List and the two returns that follow it.
Check(c) ==
    /\ callers[c].pc = "check"
    /\ \E fail \in 0..1 :
        \E results \in {FilesList(World(fail), "any", callers[c].fileName,
                                  callers[c].parentID)} :
            /\ remote' = results.w.remote
            /\ calls' = results.w.calls
            /\ callers' =
                 [callers EXCEPT ![c] =
                     [@ EXCEPT !.listed = Len(results.w.calls),
                               !.pc = IF AfterCheck(results) = "create"
                                      THEN "create" ELSE "done",
                               !.id = IF AfterCheck(results) = "found"
                                      THEN results.files[1] ELSE EmptyId,
                               !.err = results.err]]
    /\ Frame

\* The creation call and the return of its result.
Create(c) ==
    /\ callers[c].pc = "create"
    /\ \E fail \in 0..1 :
        \E file \in {FilesCreate(World(fail), "file", callers[c].fileName,
                                 callers[c].parentID, Bytes(callers[c].fileName))} :
            /\ remote' = file.w.remote
            /\ calls' = file.w.calls
            /\ callers' =
                 [callers EXCEPT ![c] =
                     [@ EXCEPT !.created = Len(file.w.calls), !.pc = "done",
                               !.id = file.id, !.err = file.err]]
    /\ Frame

InitCallers ==
    /\ remote = InitialRemote
    /\ calls = <<>>
    /\ fsFiles = [p \in LocalFiles |-> Bytes(p)]
    /\ dirCache = EmptyMap
    /\ compression = NewGoogleDriveService(<<>>)
    /\ ops = <<>>
    /\ auth = AuthOff
    /\ callers = [c \in Callers |-> IdleCaller]

NextCallers == \E c \in Callers : Begin(c) \/ Check(c) \/ Create(c)

SpecCallers == InitCallers /\ [][NextCallers]_vars

\* The per-file directory upload from more local roots: a named directory,
\* the same with a trailing separator, and the current directory ".".  The
\* walk yields the paths of the files under the root as filepath.Join of the
\* root and the names below it builds them.
Roots == {<<"root">>, <<"root", Sep>>, <<Dot>>}

ListingsOf(dirname) ==
    IF dirname = <<Dot>> THEN {<< <<"a.txt">> >>, <<ReadmePath, <<"b.txt">> >>}
    ELSE {<<ReadmePath>>, <<NotesPath, ReadmePath>>}

CallUploadRoot ==
    /\ Len(ops) < MaxOps
    /\ \E dirname \in Roots :
        \E listing \in ListingsOf(dirname) :
            \E fail \in 0..UploadDirectory(World(0), dirname, Q, listing).w.steps :
                \E r \in {UploadDirectory(World(fail), dirname, Q, listing)} :
                    Commit(r.w, OpRecord("UploadDirectory", dirname, Q, listing, r,
                                         EmptyId, r.files, NilMap, fail))

NextPerFile == CallUploadRoot

SpecPerFile == InitResolver /\ [][NextPerFile]_vars

\* ------------------------------------------------------------ file listing
\* ListFiles and ListFilesInFolder of the drive client: one call lists the
\* folders, one lists the files, and buildPath walks from the first parent
\* of each file up the folders listed.  A path is the sequence of its
\* characters, as the local paths are; trace is the sequence of folder ids
\* the walk visited.
MaxLevels == 10
MyDrive == <<"My Drive">>
ErrFolders == <<"unable to retrieve folders: ">>
ErrFiles == <<"unable to retrieve files: ">>

\* item.Parents of a node; item.Size is zero for a node without content.
ParentsOf(node) == IF node.parent = EmptyId THEN <<>> ELSE <<node.parent>>

Size(node) == IF node.content.kind = "none" THEN 0 ELSE 1

\* foldersResp.Files: the query names the MIME type only.
FoldersResp(rem) == {id \in DOMAIN rem : rem[id].mime = "folder"}

Unvisited_Always(st) == TRUE

\* !visited[currentID]
Unvisited(st) == st.currentID \notin st.visited

\* The loop of buildPath.  In ListFiles (scan) the parent is found by a scan
\* of the folders listed, which leaves currentID as it is for a folder
\* without parents; in ListFilesInFolder the loop breaks for such a folder.
RECURSIVE WalkUp(_, _, _)
WalkUp(rem, st, scan) ==
    IF ~(st.i < MaxLevels /\ st.currentID # EmptyId /\ Unvisited(st)) THEN st
    ELSE LET id == st.currentID
             seen == [st EXCEPT !.visited = @ \cup {id}, !.trace = Append(@, id)]
         IN  IF id \notin FoldersResp(rem) THEN seen
             ELSE LET named == [seen EXCEPT !.pathParts = <<rem[id].name>> \o @]
                      parents == ParentsOf(rem[id])
                  IN  IF Len(parents) > 0
                      THEN WalkUp(rem, [named EXCEPT !.currentID = parents[1],
                                                     !.i = @ + 1], scan)
                      ELSE IF scan
                      THEN WalkUp(rem, [named EXCEPT !.i = @ + 1], scan)
                      ELSE named

buildPath(rem, parentIDs, scan) ==
    IF Len(parentIDs) = 0
    THEN [path |-> MyDrive, pathParts |-> <<>>, trace |-> <<>>]
    ELSE LET st == WalkUp(rem, [i |-> 0, currentID |-> parentIDs[1], visited |-> {},
                                pathParts |-> <<>>, trace |-> <<>>], scan)
         IN  [path |-> IF Len(st.pathParts) = 0 THEN MyDrive
                       ELSE MyDrive \o <<Sep>> \o JoinSegs(st.pathParts),
              pathParts |-> st.pathParts, trace |-> st.trace]

\* The loop over the items of the answer: folders and empty files skipped.
RECURSIVE FileInfos(_, _, _, _)
FileInfos(rem, items, scan, files) ==
    IF Len(items) = 0 THEN files
    ELSE LET item == rem[Head(items)]
         IN  IF Size(item) = 0 \/ item.mime = "folder"
             THEN FileInfos(rem, Tail(items), scan, files)
             ELSE FileInfos(rem, Tail(items), scan,
                            Append(files, [ID |-> Head(items), Name |-> item.name,
                                           Parents |-> ParentsOf(item),
                                           FolderPath |-> buildPath(rem, ParentsOf(item),
                                                                    scan)]))

\* The ids of the nodes a files query answers with, in the order of the ids.
RECURSIVE Answer(_, _, _)
Answer(rem, query, id) ==
    IF id > Len(rem) THEN <<>>
    ELSE IF /\ (query.live => ~rem[id].trashed)
            /\ (query.parent = EmptyId \/ rem[id].parent = query.parent)
         THEN <<id>> \o Answer(rem, query, id + 1)
         ELSE Answer(rem, query, id + 1)

ListCall(w, mime, parent) ==
    LET ok == ~FailsNow(w)
        call == [op |-> "list", mime |-> mime, name |-> <<>>, parent |-> parent,
                 ok |-> ok, id |-> EmptyId]
    IN  [w |-> [Passed(w) EXCEPT !.calls = Append(@, call)], ok |-> ok]

\* The body both functions share.  The query of ListFiles has no condition;
\* that of ListFilesInFolder is trashed=false, and the parent when it is not
\* the empty string.
Listing(w, query, scan) ==
    Bind(ListCall(w, "folder", EmptyId), LAMBDA foldersResp :
        IF ~foldersResp.ok
        THEN [w |-> foldersResp.w, files |-> <<>>, err |-> ErrFolders]
        ELSE Bind(ListCall(foldersResp.w, "any", query.parent), LAMBDA r :
                      IF ~r.ok THEN [w |-> r.w, files |-> <<>>, err |-> ErrFiles]
                      ELSE [w |-> r.w,
                            files |-> FileInfos(w.remote,
                                                Answer(w.remote, query, 1),
                                                scan, <<>>),
                            err |-> Nil]))

ListFiles(w) == Listing(w, [parent |-> EmptyId, live |-> FALSE], TRUE)

ListFilesInFolder(w, parentFolderID) ==
    Listing(w, [parent |-> parentFolderID, live |-> TRUE], FALSE)

\* The drives listed: a chain of n folders, folder k under folder k + 1, the
\* last one under top (no parent, a folder that is not listed, or a folder
\* of the chain: a cycle), and one file whose parent is start.
MaxChain == 12
MaxListings == 1
Unlisted == 99

ChainRemote(n, top, start) ==
    [k \in 1..n |-> [name |-> <<ToString(k)>>,
                     parent |-> IF k < n THEN k + 1 ELSE top,
                     mime |-> "folder", trashed |-> FALSE, content |-> NoContent]]
        \o <<[name |-> <<"a.txt">>, parent |-> start, mime |-> "file",
              trashed |-> FALSE, content |-> Bytes(<<"a.txt">>)]>>

InitList ==
    /\ \E n \in 0..MaxChain :
        \E top \in {EmptyId, Unlisted} \cup 1..n, start \in {EmptyId, Unlisted} \cup 1..n :
            remote = ChainRemote(n, top, start)
    /\ calls = <<>>
    /\ fsFiles = [p \in LocalFiles |-> Bytes(p)]
    /\ dirCache = EmptyMap
    /\ compression = NewGoogleDriveService(<<>>)
    /\ ops = <<>>
    /\ auth = AuthOff
    /\ callers = NoCallers

ListRecord(op, parentFolderID, r, fail) ==
    [op |-> op, parent |-> parentFolderID, pre |-> remote,
     first |-> Len(calls) + 1, last |-> Len(r.w.calls),
     files |-> r.files, err |-> r.err, fail |-> fail]

CallListFiles ==
    /\ Len(ops) < MaxListings
    /\ \E fail \in 0..ListFiles(World(0)).w.steps :
        \E r \in {ListFiles(World(fail))} :
            Commit(r.w, ListRecord("ListFiles", EmptyId, r, fail))

CallListFilesInFolder ==
    /\ Len(ops) < MaxListings
    /\ \E parentFolderID \in {EmptyId, 1, Unlisted} :
        \E fail \in 0..ListFilesInFolder(World(0), parentFolderID).w.steps :
            \E r \in {ListFilesInFolder(World(fail), parentFolderID)} :
                Commit(r.w, ListRecord("ListFilesInFolder", parentFolderID, r, fail))

NextList == CallListFiles \/ CallListFilesInFolder

SpecList == InitList /\ [][NextList]_vars

\* ------------------------------------------------------------------ claims
OpCalls(o) == SubSeq(calls, o.first, o.last)

\* The positions in cs of the creation calls of a MIME type.
CreatesIn(cs, mime) == {j \in 1..Len(cs) : cs[j].op = "create" /\ cs[j].mime = mime}

ListsIn(cs) == {j \in 1..Len(cs) : cs[j].op = "list"}

\* A Drive file is a node of any MIME type, a folder included: these are the
\* non-trashed ones of a name under a parent.
Existing(rem, name, parent) ==
    {i \in 1..Len(rem) :
        ~rem[i].trashed /\ rem[i].name = name /\ rem[i].parent = parent}

SameUploadTwice(i) ==
    /\ i + 1 \in DOMAIN ops
    /\ ops[i].op = "UploadFile" /\ ops[i + 1].op = "UploadFile"
    /\ ops[i].arg = ops[i + 1].arg /\ ops[i].parent = ops[i + 1].parent
    /\ ops[i].err = Nil /\ ops[i + 1].err = Nil

\* C2: uploading a file under a parent twice in a row, with no failure,
\* returns the second time the id the first call returned, and the two calls
\* together issue exactly one file-creation call (none when the name was
\* already there before the first call); the second call issues none.
C2_DedupUploadTwice ==
    \A i \in DOMAIN ops :
        SameUploadTwice(i) =>
            LET first == OpCalls(ops[i])
                second == OpCalls(ops[i + 1])
                before == Existing(ops[i].pre, Base(ops[i].arg), ops[i].parent)
            IN  /\ ops[i + 1].id = ops[i].id
                /\ CreatesIn(second, "file") = {}
                /\ Cardinality(CreatesIn(first, "file")) =
                       IF before = {} THEN 1 ELSE 0

\* C2 witness: the first of the two uploads created the file.
C2_Witness ==
    \E i \in DOMAIN ops :
        /\ SameUploadTwice(i)
        /\ CreatesIn(OpCalls(ops[i]), "file") # {}

Segs(path) == NonEmpty(Split(path))

DistinctSegs(segs) ==
    \A a, b \in DOMAIN segs : a # b => segs[a] # segs[b]

RECURSIVE FoundPrefix(_, _, _)
\* How many leading segments of segs the remote rem already holds as a chain
\* of non-trashed folders under parent.
FoundPrefix(rem, segs, parent) ==
    IF Len(segs) = 0 THEN 0
    ELSE LET here == {i \in 1..Len(rem) :
                         /\ rem[i].mime = "folder" /\ ~rem[i].trashed
                         /\ rem[i].name = Head(segs) /\ rem[i].parent = parent}
         IN  IF here = {} THEN 0
             ELSE 1 + FoundPrefix(rem, Tail(segs), MinOf(here))

\* Two MkdirAll calls in a row with the same path, of distinct segment names,
\* and the same root parent, none failing.
SameMkdirTwice(i) ==
    /\ i + 1 \in DOMAIN ops
    /\ ops[i].op = "MkdirAll" /\ ops[i + 1].op = "MkdirAll"
    /\ ops[i].arg = ops[i + 1].arg /\ ops[i].parent = ops[i + 1].parent
    /\ ops[i].err = Nil /\ ops[i + 1].err = Nil
    /\ DistinctSegs(Segs(ops[i].arg))

\* C3: MkdirAll twice with the same path (segment names distinct) and the same
\* root parent, with no failure, returns the same innermost id both times; the
\* second call creates nothing, and the two calls together issue exactly one
\* folder-creation call for each segment the remote did not hold before (none
\* for a segment it held).
C3_IdempotentMkdirAll ==
    \A i \in DOMAIN ops :
        SameMkdirTwice(i) =>
            LET segs == Segs(ops[i].arg)
                first == OpCalls(ops[i])
                second == OpCalls(ops[i + 1])
                held == FoundPrefix(ops[i].pre, segs, ops[i].parent)
            IN  /\ ops[i + 1].id = ops[i].id
                /\ CreatesIn(second, "folder") = {}
                /\ \A k \in DOMAIN segs :
                       Cardinality({j \in CreatesIn(first, "folder") :
                                       first[j].name = segs[k]}) =
                           IF k > held THEN 1 ELSE 0

\* C3 witness: the first of the two calls created folders for a path of two
\* segments or more.
C3_Witness ==
    \E i \in DOMAIN ops :
        /\ SameMkdirTwice(i)
        /\ Len(Segs(ops[i].arg)) >= 2
        /\ Cardinality(CreatesIn(OpCalls(ops[i]), "folder")) >= 2

RECURSIVE ListPositions(_, _)
\* The positions of the lookups among cs[j..], in order.
ListPositions(cs, j) ==
    IF j > Len(cs) THEN <<>>
    ELSE IF cs[j].op = "list" THEN <<j>> \o ListPositions(cs, j + 1)
    ELSE ListPositions(cs, j + 1)

\* The id the lookup at position p of cs, or the creation that follows it,
\* resolved its segment to.
ResolvedAt(cs, p) ==
    IF cs[p].id # EmptyId THEN cs[p].id
    ELSE IF p + 1 <= Len(cs) THEN cs[p + 1].id
    ELSE EmptyId

\* C4: MkdirAll of a path with non-empty segments s1..sn from root P, nothing
\* being cached, looks the segments up strictly left to right: the lookups are
\* for s1, s2, ... in this order (all n of them when nothing fails), the
\* lookup and any creation for s1 use parent P and those for s(i+1) use the id
\* resolved for s(i), a creation only follows the lookup of its own segment
\* that found nothing, and the id returned is the one resolved for sn.
C4_LeftToRight ==
    \A i \in DOMAIN ops :
        (ops[i].op = "MkdirAll" /\ dirCache = EmptyMap) =>
            LET o == ops[i]
                segs == Segs(o.arg)
                cs == OpCalls(o)
                pos == ListPositions(cs, 1)
                parentOf(k) == IF k = 1 THEN o.parent ELSE ResolvedAt(cs, pos[k - 1])
            IN  /\ Len(pos) <= Len(segs)
                /\ o.err = Nil => Len(pos) = Len(segs)
                /\ \A k \in DOMAIN pos :
                       /\ cs[pos[k]].mime = "folder"
                       /\ cs[pos[k]].name = segs[k]
                       /\ cs[pos[k]].parent = parentOf(k)
                       /\ parentOf(k) # EmptyId
                /\ \A j \in CreatesIn(cs, "folder") :
                       /\ j > 1
                       /\ cs[j - 1].op = "list" /\ cs[j - 1].ok
                       /\ cs[j - 1].id = EmptyId
                       /\ cs[j - 1].name = cs[j].name
                       /\ cs[j - 1].parent = cs[j].parent
                /\ CreatesIn(cs, "file") = {}
                /\ (o.err = Nil /\ Len(segs) > 0) =>
                       /\ o.id = ResolvedAt(cs, pos[Len(pos)])
                       /\ remote[o.id].name = segs[Len(segs)]
                       /\ remote[o.id].mime = "folder"

\* C4 witness: a path of three segments was resolved, the first found on the
\* remote and the two below it created.
C4_Witness ==
    \E i \in DOMAIN ops :
        /\ ops[i].op = "MkdirAll" /\ ops[i].err = Nil
        /\ Len(Segs(ops[i].arg)) = 3
        /\ Len(ListPositions(OpCalls(ops[i]), 1)) = 3
        /\ Cardinality(CreatesIn(OpCalls(ops[i]), "folder")) = 2

\* C5 (as claimed): after a successful MkdirAll every segment name of the path
\* is a key of dirCache mapped to the id resolved for it, and a MkdirAll of the
\* same path right after it issues no lookup.
C5_CacheUpdated ==
    \A i \in DOMAIN ops :
        (ops[i].op = "MkdirAll" /\ ops[i].err = Nil) =>
            LET segs == Segs(ops[i].arg)
            IN  /\ i = Len(ops) =>
                       \A k \in DOMAIN segs :
                           /\ segs[k] \in DOMAIN dirCache
                           /\ dirCache[segs[k]] = ops[i].m.kv[segs[k]]
                /\ (/\ i + 1 \in DOMAIN ops
                    /\ ops[i + 1].op = "MkdirAll"
                    /\ ops[i + 1].arg = ops[i].arg) =>
                       ListsIn(OpCalls(ops[i + 1])) = {}

\* C6 (as claimed): MkdirAll with the empty path and root parent P issues no
\* remote call and returns P.
C6_EmptyPathReturnsRoot ==
    \A i \in DOMAIN ops :
        (ops[i].op = "MkdirAll" /\ ops[i].arg = <<>>) =>
            /\ OpCalls(ops[i]) = <<>>
            /\ ops[i].err = Nil
            /\ ops[i].id = ops[i].parent

\* C7 (as claimed): in one run at most one folder-creation call that creates a
\* folder is issued for each segment name.
C7_OneCreationPerName ==
    \A j, k \in DOMAIN calls :
        (/\ calls[j].op = "create" /\ calls[j].mime = "folder" /\ calls[j].ok
         /\ calls[k].op = "create" /\ calls[k].mime = "folder" /\ calls[k].ok
         /\ calls[j].name = calls[k].name) => j = k

LastSeg(path) == Segs(path)[Len(Segs(path))]

\* C8 (as claimed): when two paths of one run end in the same segment name
\* under different directories, both successful resolutions from the same root
\* return the same id, the one cached for the first.
C8_CollisionSharesId ==
    \A i, j \in DOMAIN ops :
        (/\ i < j
         /\ ops[i].op = "MkdirAll" /\ ops[j].op = "MkdirAll"
         /\ ops[i].err = Nil /\ ops[j].err = Nil
         /\ ops[i].parent = ops[j].parent
         /\ Len(Segs(ops[i].arg)) = 2 /\ Len(Segs(ops[j].arg)) = 2
         /\ Segs(ops[i].arg)[1] # Segs(ops[j].arg)[1]
         /\ LastSeg(ops[i].arg) = LastSeg(ops[j].arg)) =>
            ops[j].id = ops[i].id

\* C10: when a lookup or a creation fails inside MkdirAll, that call is the
\* last one MkdirAll issues (every call before it succeeded and is for a
\* segment up to the failing one); MkdirAll returns the underlying error
\* wrapped in "failed to create directory", the empty id and a nil map; no
\* call other than list and create is issued, and every node the remote held,
\* the folders created before the failure included, is still there unchanged.
C10_FailureStops ==
    \A i \in DOMAIN ops :
        (ops[i].op = "MkdirAll" /\ ops[i].err # Nil) =>
            LET o == ops[i]
                segs == Segs(o.arg)
                cs == OpCalls(o)
                n == Len(cs)
                reached == Len(ListPositions(cs, 1))
            IN  /\ n > 0
                /\ ~cs[n].ok
                /\ \A j \in 1..(n - 1) : cs[j].ok
                /\ o.err = WrapErr("failed to create directory: ",
                                   IF cs[n].op = "list" THEN ErrList ELSE ErrCreate)
                /\ o.id = EmptyId
                /\ o.m = NilMap
                /\ reached <= Len(segs)
                /\ \A j \in 1..n :
                       /\ cs[j].op \in {"list", "create"}
                       /\ \E k \in 1..reached : cs[j].name = segs[k]
                /\ Len(remote) >= Len(o.pre)
                /\ SubSeq(remote, 1, Len(o.pre)) = o.pre
                /\ \A j \in 1..(n - 1) :
                       cs[j].op = "create" =>
                           /\ cs[j].id \in DOMAIN remote
                           /\ remote[cs[j].id].name = cs[j].name
                           /\ remote[cs[j].id].parent = cs[j].parent
                           /\ ~remote[cs[j].id].trashed

\* C10 witness: MkdirAll failed at its third segment after creating the
\* folders of the two before it.
C10_Witness ==
    \E i \in DOMAIN ops :
        /\ ops[i].op = "MkdirAll" /\ ops[i].err # Nil
        /\ Len(ListPositions(OpCalls(ops[i]), 1)) = 3
        /\ Cardinality(CreatesIn(OpCalls(ops[i]), "folder")) >= 2

\* The positions in cs of the creation calls for a name.
CreatesOf(cs, mime, name) == {j \in CreatesIn(cs, mime) : cs[j].name = name}

\* An UploadDirectory of the local root (docs/readme.txt, docs/sub/notes.txt)
\* in per-file mode into the target Q, which holds nothing but trash, that
\* did not fail.
FreshPerFileUpload(i) ==
    /\ ops[i].op = "UploadDirectory"
    /\ compression = NoCompression
    /\ ops[i].pre = InitialRemote
    /\ ops[i].err = Nil

\* C9 (as claimed): in every enumeration order "docs" is created exactly once,
\* "docs/sub" exactly once and after "docs", and both folder creations come
\* before the upload of either file.
C9_FoldersBeforeEitherFile ==
    \A i \in DOMAIN ops :
        FreshPerFileUpload(i) =>
            LET cs == OpCalls(ops[i])
                docs == CreatesOf(cs, "folder", <<"docs">>)
                sub == CreatesOf(cs, "folder", <<"sub">>)
            IN  /\ Cardinality(docs) = 1
                /\ Cardinality(sub) = 1
                /\ \A d \in docs, u \in sub : d < u
                /\ \A f \in CreatesIn(cs, "file"), d \in docs \cup sub : d < f

\* C9 (amended): in every enumeration order "docs" is created exactly once,
\* "docs/sub" exactly once, after "docs" and under it, and each file is
\* uploaded once, into the folder of its own path and after that folder was
\* created; no second creation call is issued for "docs".  Only when
\* notes.txt is enumerated first are both folders created before either
\* upload: when readme.txt is first, it is uploaded before "docs/sub" is
\* created.
C9_FoldersBeforeOwnFile ==
    \A i \in DOMAIN ops :
        FreshPerFileUpload(i) =>
            LET cs == OpCalls(ops[i])
                docs == CreatesOf(cs, "folder", <<"docs">>)
                sub == CreatesOf(cs, "folder", <<"sub">>)
                readme == CreatesOf(cs, "file", <<"readme.txt">>)
                notes == CreatesOf(cs, "file", <<"notes.txt">>)
            IN  /\ Cardinality(docs) = 1
                /\ Cardinality(sub) = 1
                /\ Cardinality(readme) = 1
                /\ Cardinality(notes) = 1
                /\ CreatesIn(cs, "file") = readme \cup notes
                /\ \A d \in docs, u \in sub, r \in readme, n \in notes :
                       /\ d < u
                       /\ cs[u].parent = cs[d].id
                       /\ d < r /\ cs[r].parent = cs[d].id
                       /\ u < n /\ cs[n].parent = cs[u].id
                       /\ ops[i].listing[1] = ReadmePath => r < u
                       /\ ops[i].listing[1] = NotesPath => u < r
                       /\ ops[i].files = IF ops[i].listing[1] = ReadmePath
                                         THEN <<cs[r].id, cs[n].id>>
                                         ELSE <<cs[n].id, cs[r].id>>

\* C9 witness: the upload that enumerated readme.txt first has finished.
C9_Witness ==
    \E i \in DOMAIN ops :
        /\ FreshPerFileUpload(i)
        /\ ops[i].listing[1] = ReadmePath
        /\ Len(ops[i].files) = 2

\* A MkdirAll that failed, followed at once by a MkdirAll of the same path
\* under the same root that succeeded.
RetryAfterFailure(i) ==
    /\ i + 1 \in DOMAIN ops
    /\ ops[i].op = "MkdirAll" /\ ops[i + 1].op = "MkdirAll"
    /\ ops[i].arg = ops[i + 1].arg /\ ops[i].parent = ops[i + 1].parent
    /\ ops[i].err # Nil /\ ops[i + 1].err = Nil

\* The non-trashed folders of a name under a parent.
FoldersAt(rem, name, parent) ==
    {n \in 1..Len(rem) :
        /\ rem[n].mime = "folder" /\ ~rem[n].trashed
        /\ rem[n].name = name /\ rem[n].parent = parent}

\* C11: when a MkdirAll failed after resolving (finding or creating) the
\* folders of its first k segments, a MkdirAll of the same path under the same
\* root that follows it and succeeds finds each of these k folders by its
\* lookup and resolves the segment to the same id, issues a creation call only
\* for segments the failed attempt left unresolved (one for each segment that
\* has no folder yet, none for the others), and leaves
\* exactly one non-trashed folder for each segment under the folder resolved
\* for the segment before it.
C11_RetryReuses ==
    \A i \in DOMAIN ops :
        RetryAfterFailure(i) =>
            LET segs == Segs(ops[i].arg)
                failed == OpCalls(ops[i])
                retry == OpCalls(ops[i + 1])
                fpos == ListPositions(failed, 1)
                rpos == ListPositions(retry, 1)
                done == {k \in DOMAIN fpos : ResolvedAt(failed, fpos[k]) # EmptyId}
                parentOf(k) == IF k = 1 THEN ops[i].parent
                               ELSE ResolvedAt(retry, rpos[k - 1])
            IN  /\ Len(rpos) = Len(segs)
                /\ \A k \in done :
                       /\ retry[rpos[k]].id = ResolvedAt(failed, fpos[k])
                       /\ CreatesOf(failed, "folder", segs[k]) # {} =>
                              \E j \in CreatesOf(failed, "folder", segs[k]) :
                                  failed[j].id = retry[rpos[k]].id
                /\ \A j \in CreatesIn(retry, "folder") :
                       \E k \in DOMAIN segs \ done : j = rpos[k] + 1
                /\ \A k \in DOMAIN segs :
                       Cardinality({j \in CreatesIn(retry, "folder") :
                                       j = rpos[k] + 1}) =
                           IF FoldersAt(ops[i + 1].pre, segs[k], parentOf(k)) = {}
                           THEN 1 ELSE 0
                /\ i + 1 = Len(ops) =>
                       \A k \in DOMAIN segs :
                           Cardinality(FoldersAt(remote, segs[k], parentOf(k))) = 1

\* C11 witness: the failed attempt had created the folders of two segments,
\* and the retry created the one that was missing.
C11_Witness ==
    \E i \in DOMAIN ops :
        /\ RetryAfterFailure(i)
        /\ Cardinality(CreatesIn(OpCalls(ops[i]), "folder")) = 3
        /\ Cardinality({j \in CreatesIn(OpCalls(ops[i]), "folder") :
                           OpCalls(ops[i])[j].ok}) = 2
        /\ Cardinality(CreatesIn(OpCalls(ops[i + 1]), "folder")) = 1

\* A call that resolved a file of a name: a lookup that found it or a
\* creation that succeeded.
FileDone(cs, name) ==
    \E j \in DOMAIN cs :
        /\ cs[j].ok /\ cs[j].name = name
        /\ \/ cs[j].op = "list" /\ cs[j].mime = "any" /\ cs[j].id # EmptyId
           \/ cs[j].op = "create" /\ cs[j].mime = "file"

\* The names the per-file mode sends to the remote for the k-th file of an
\* UploadDirectory: the segments of its directory and its own name.
NamesOf(o, k) ==
    LET dir == Segs(Dir(GetRelativePath(o.listing[k], o.arg)))
    IN  {dir[n] : n \in DOMAIN dir} \cup {Base(o.listing[k])}

\* C12: in one UploadDirectory the first step that fails (the enumeration, a
\* stat, a lookup or creation of directory resolution, an archive build step,
\* the upload) is the last step the invocation takes: an error is returned,
\* every remote call before the failing one succeeded, in per-file mode no
\* call is issued for a file enumerated after the first file that was not
\* uploaded, and the result holds no uploaded file (nil in per-file mode; in
\* whole-tree mode nil or one nil entry).
C12_FirstFailureEnds ==
    \A i \in DOMAIN ops :
        (ops[i].op = "UploadDirectory" /\ ops[i].fail # 0) =>
            LET o == ops[i]
                cs == OpCalls(o)
                n == Len(cs)
                L == o.listing
                undone == {k \in DOMAIN L : ~FileDone(cs, Base(L[k]))}
            IN  /\ o.err # Nil
                /\ o.steps = o.fail
                /\ \A j \in 1..(n - 1) : cs[j].ok
                /\ \A k \in DOMAIN o.files : o.files[k] = EmptyId
                /\ Len(o.files) <= 1
                /\ compression = NoCompression =>
                       /\ o.files = <<>>
                       /\ undone # {}
                       /\ \A j \in 1..n :
                              \E k \in 1..MinOf(undone) : cs[j].name \in NamesOf(o, k)
                /\ compression # NoCompression =>
                       /\ CreatesIn(cs, "folder") = {}
                       /\ \A j \in CreatesIn(cs, "file") : ~cs[j].ok

\* C12 witness: a per-file UploadDirectory uploaded its first file and failed
\* at the second one.
C12_Witness ==
    \E i \in DOMAIN ops :
        /\ ops[i].op = "UploadDirectory" /\ ops[i].fail # 0
        /\ compression = NoCompression
        /\ ops[i].err # Nil
        /\ FileDone(OpCalls(ops[i]), Base(ops[i].listing[1]))
        /\ ops[i].files = <<>>

\* C13 (as claimed): in a run of the command line program, when the upload of
\* a local path returns an error, the process ends with a non-zero exit
\* status, the error is printed, and no later local path is uploaded (the
\* failed upload is the last one attempted).
C13_UploadErrorExits ==
    \A i \in DOMAIN ops :
        ops[i].op = "main" =>
            \A k \in DOMAIN ops[i].errs :
                ops[i].errs[k] # Nil =>
                    /\ ops[i].exit # 0
                    /\ \E n \in DOMAIN ops[i].printed :
                           \E m \in 0..Len(ops[i].printed[n]) :
                               SubSeq(ops[i].printed[n], m + 1,
                                      Len(ops[i].printed[n])) = ops[i].errs[k]
                    /\ k = Len(ops[i].errs)

\* C14 (as claimed): the compression mode a run of the program stores in its
\* service is NoCompression, GZipCompression or ZipCompression whatever the
\* flags are; no upload ends in "unsupported compression algorithm"; and
\* without -gzip and -zip, when nothing fails, each local file that was not
\* on the drive is created there with its own bytes.
C14_ModeEnumerated ==
    \A i \in DOMAIN ops :
        ops[i].op = "main" =>
            LET o == ops[i]
                paths == NonEmpty(Tail(o.args))
            IN  /\ o.compression \in {NoCompression, GZipCompression, ZipCompression}
                /\ \A k \in DOMAIN o.errs :
                       o.errs[k] # WrapErr("error compressing file: ", ErrUnsupported)
                /\ (o.flags = <<FALSE, FALSE>> /\ o.fail = 0 /\ o.exit = 0) =>
                       \A k \in DOMAIN paths :
                           (/\ paths[k] \in DOMAIN o.fsPre
                            /\ Existing(o.pre, Base(paths[k]), o.args[1]) = {}) =>
                               \E j \in o.first..o.last :
                                   /\ calls[j].op = "create" /\ calls[j].ok
                                   /\ calls[j].name = Base(paths[k])
                                   /\ remote[calls[j].id].content = o.fsPre[paths[k]]

\* The entries an archive of the paths holds: tar entries are named by the
\* path given, zip entries by its last element.
EntriesOf(kind, paths, fs) ==
    [k \in DOMAIN paths |->
        [name |-> IF kind = "zip" THEN Base(paths[k]) ELSE paths[k],
         data |-> fs[paths[k]]]]

\* C15: with mode NoCompression, CreateFileArchive (and CreateDirArchive)
\* returns the path it was given with no error and leaves the local files as
\* they were; with mode GZipCompression or ZipCompression, when it returns no
\* error, the path returned is the input path followed by ".tar.gz" or ".zip",
\* this file is the only local file added or changed, and it is an archive
\* of that kind holding one entry for every input path, in order, with the
\* bytes of that file.
C15_CompressionSelector ==
    \A i \in DOMAIN ops :
        ops[i].op \in {"CreateFileArchive", "CreateDirArchive"} =>
            LET o == ops[i]
                kind == IF compression = GZipCompression THEN "tar.gz" ELSE "zip"
                name == IF compression = GZipCompression
                        THEN o.arg \o <<".tar.gz">> ELSE o.arg \o <<".zip">>
            IN  /\ compression = NoCompression =>
                       /\ o.err = Nil
                       /\ o.archive = o.arg
                       /\ o.fsPost = o.fsPre
                       /\ o.steps = 0
                /\ (compression \in {GZipCompression, ZipCompression} /\ o.err = Nil) =>
                       /\ o.archive = name
                       /\ DOMAIN o.fsPost = DOMAIN o.fsPre \cup {name}
                       /\ \A f \in DOMAIN o.fsPre \ {name} : o.fsPost[f] = o.fsPre[f]
                       /\ o.fsPost[name] =
                              Archive(kind, EntriesOf(kind, o.listing, o.fsPre))

\* C15 witness: an archive of the two files of the local root was built.
C15_Witness ==
    \E i \in DOMAIN ops :
        /\ ops[i].op = "CreateDirArchive" /\ ops[i].err = Nil
        /\ compression \in {GZipCompression, ZipCompression}
        /\ Len(ops[i].fsPost[ops[i].archive].entries) = 2

\* C16 (as claimed): whenever UploadFile or UploadDirectory returns under
\* GZipCompression or ZipCompression, with or without an error, no local file
\* is there that was not there before the call: every archive the call
\* created has been removed.
C16_NoArchiveRemains ==
    \A i \in DOMAIN ops :
        (/\ ops[i].op \in {"UploadFile", "UploadDirectory"}
         /\ compression \in {GZipCompression, ZipCompression}) =>
            DOMAIN ops[i].fsPost \subseteq DOMAIN ops[i].fsPre

\* A step of building an archive failed in the operation.
BuildFailed(o) == \E n \in DOMAIN o.built : ~o.built[n].ok

\* C17: when a step of building an archive fails in UploadFile, or in
\* UploadDirectory (in the archive of the tree or in the archive UploadFile
\* makes of it), the operation returns the error "error compressing file",
\* returns no file, and issues no remote call, neither a lookup nor a
\* creation.
C17_BuildFailureNoCall ==
    \A i \in DOMAIN ops :
        (ops[i].op \in {"UploadFile", "UploadDirectory"} /\ BuildFailed(ops[i])) =>
            /\ ops[i].err # Nil
            /\ ops[i].err[1] = "error compressing file: "
            /\ OpCalls(ops[i]) = <<>>
            /\ ops[i].id = EmptyId
            /\ \A k \in DOMAIN ops[i].files : ops[i].files[k] = EmptyId

\* C17 witness: an UploadDirectory built the archive of the tree and failed
\* while UploadFile was archiving it.
C17_Witness ==
    \E i \in DOMAIN ops :
        /\ ops[i].op = "UploadDirectory" /\ BuildFailed(ops[i])
        /\ \E n \in DOMAIN ops[i].built :
               /\ ops[i].built[n].op = "create" /\ ops[i].built[n].ok
               /\ ops[i].built[n].path = tarGzipFilename(<<"root">>)
        /\ \E n \in DOMAIN ops[i].built :
               /\ ops[i].built[n].op = "add" /\ ~ops[i].built[n].ok
               /\ ops[i].built[n].path = tarGzipFilename(<<"root">>)

\* The name of the archive of a local root under the compression in force.
TreeArchive(dirname) ==
    IF compression = GZipCompression THEN tarGzipFilename(Base(dirname))
    ELSE zipFilename(Base(dirname))

\* C18: under GZipCompression or ZipCompression, UploadDirectory issues no
\* folder lookup and no folder creation and no call named after an enumerated
\* file; every enumerated file is added to one archive, the archive of the
\* tree; every call it issues has the target parent passed in as parent and
\* the name of the tree archive as name, at most one of them is a creation
\* (none when that name is already there); and when it returns no error, it
\* returns a list of exactly one entry, the file of that name under the
\* target parent.
C18_WholeTreeMode ==
    \A i \in DOMAIN ops :
        (/\ ops[i].op = "UploadDirectory"
         /\ compression \in {GZipCompression, ZipCompression}) =>
            LET o == ops[i]
                cs == OpCalls(o)
                tree == TreeArchive(o.arg)
                adds == {n \in DOMAIN o.built :
                            o.built[n].op = "add" /\ o.built[n].path # tree}
            IN  /\ \A j \in DOMAIN cs :
                       /\ cs[j].mime # "folder"
                       /\ cs[j].parent = o.parent
                       /\ cs[j].name = tree
                /\ Cardinality(CreatesIn(cs, "file")) <= 1
                /\ Existing(o.pre, tree, o.parent) # {} => CreatesIn(cs, "file") = {}
                /\ Cardinality({n \in DOMAIN o.built :
                                   /\ o.built[n].op = "create"
                                   /\ o.built[n].path = tree}) <= 1
                /\ \A n \in adds :
                       /\ n > 1 /\ n <= Len(o.listing) + 1
                       /\ o.built[1] = BuildStep("create", tree, TRUE)
                       /\ o.built[n].path = o.listing[n - 1]
                /\ o.err = Nil =>
                       /\ Cardinality(adds) = Len(o.listing)
                       /\ Len(o.files) = 1
                       /\ o.files[1] \in Existing(remote, tree, o.parent)
                       /\ Existing(o.pre, tree, o.parent) = {} =>
                              /\ Cardinality(CreatesIn(cs, "file")) = 1
                              /\ \A j \in CreatesIn(cs, "file") : cs[j].id = o.files[1]

\* C18 witness: a whole-tree UploadDirectory archived the two files of the
\* root and created the archive's file under the target parent.
C18_Witness ==
    \E i \in DOMAIN ops :
        /\ ops[i].op = "UploadDirectory" /\ ops[i].err = Nil
        /\ compression \in {GZipCompression, ZipCompression}
        /\ \E j \in CreatesIn(OpCalls(ops[i]), "file") :
               OpCalls(ops[i])[j].ok /\ OpCalls(ops[i])[j].parent = ops[i].parent
        /\ Len(ops[i].files) = 1

\* The byte positions of a download are out of order or negative.
BadRange(o) == o.StartByte < 0 \/ o.EndByte < 0 \/ o.StartByte > o.EndByte

\* The ids of a byte-range download are non-empty (PartialDownloadFile and
\* PartialStreamFile take no revision id).
HasIds(o) ==
    /\ o.fileID # <<>>
    /\ o.op = "PartialDownloadRevision" => o.revisionID # <<>>

RangeErrors ==
    {<<"byte positions cannot be negative">>,
     <<"start byte must be less than or equal to end byte">>,
     <<"file ID cannot be empty">>,
     <<"revision ID cannot be empty">>}

\* C19: PartialDownloadFile, PartialStreamFile and PartialDownloadRevision
\* return an error, write nothing and issue no request when StartByte < 0,
\* EndByte < 0 or StartByte > EndByte; when 0 <= StartByte <= EndByte and the
\* ids are not empty, they return none of the argument errors and issue
\* exactly one download request, whose Range header reads "bytes=", the
\* decimal digits of StartByte, "-", the decimal digits of EndByte (so the
\* service reads the two positions back from it).
C19_RangeValidation ==
    \A i \in DOMAIN ops :
        ops[i].op \in {"PartialDownloadFile", "PartialStreamFile",
                       "PartialDownloadRevision"} =>
            LET o == ops[i]
            IN  /\ BadRange(o) =>
                       /\ o.err # Nil
                       /\ o.first > o.last
                       /\ o.written = 0
                /\ (~BadRange(o) /\ HasIds(o)) =>
                       /\ o.err \notin RangeErrors
                       /\ o.last = o.first
                       /\ calls[o.first].op = "revisions.get"
                       /\ calls[o.first].fileID = o.fileID
                       /\ ParseRange(calls[o.first].range) =
                              [ok |-> TRUE, first |-> o.StartByte, last |-> o.EndByte]
                       /\ (o.StartByte = 0 /\ o.EndByte = 0) =>
                              calls[o.first].range =
                                  <<"b", "y", "t", "e", "s", "=", "0", "-", "0">>
                       /\ (o.StartByte = 5 /\ o.EndByte = 10) =>
                              calls[o.first].range =
                                  <<"b", "y", "t", "e", "s", "=", "5", "-", "1", "0">>

\* C19 witness: a download of the range 0-0 was accepted, issued its one
\* request and wrote the one byte.
C19_Witness ==
    \E i \in DOMAIN ops :
        /\ ops[i].op = "PartialDownloadFile"
        /\ ops[i].StartByte = 0 /\ ops[i].EndByte = 0
        /\ ops[i].err = Nil
        /\ ops[i].last = ops[i].first
        /\ ops[i].written = 1

\* The files of fs that lie below the directory d.
FilesBelow(fs, d) ==
    {f \in DOMAIN fs : fs[f].kind # "dir" /\ HasPrefix(f, d \o <<Sep>>)}

\* GZip of the files x and dir/y that did not fail, followed at once by a
\* GZipDecompress of its archive into the output directory, which was
\* empty, with no fault of the file system.
RoundTrip(i) ==
    /\ i + 1 \in DOMAIN ops
    /\ ops[i].op = "GZip" /\ ops[i].err = Nil
    /\ {ops[i].listing[k] : k \in DOMAIN ops[i].listing} = {XPath, DirYPath}
    /\ ops[i + 1].op = "GZipDecompress" /\ ops[i + 1].arg = ops[i].arg
    /\ ops[i + 1].listing = <<OutDir>>
    /\ FilesBelow(ops[i + 1].fsPre, OutDir) = {}
    /\ ops[i + 1].fail = 0

\* C20 (as claimed): archiving x and dir/y with GZip and extracting the
\* archive with GZipDecompress into an empty output directory returns no
\* error and leaves in the output directory exactly the files x and dir/y,
\* each with the bytes of its source.
C20_GzipRoundTrip ==
    \A i \in DOMAIN ops :
        RoundTrip(i) =>
            LET post == ops[i + 1].fsPost
            IN  /\ ops[i + 1].err = Nil
                /\ FilesBelow(post, OutDir) =
                       {Join(OutDir, XPath), Join(OutDir, DirYPath)}
                /\ \A f \in {XPath, DirYPath} :
                       post[Join(OutDir, f)] = ops[i].fsPre[f]

\* Zip of the files x and dir/y that did not fail, followed at once by an
\* UnZip of its archive into the output directory, which was empty, with no
\* fault of the file system.
ZipRoundTrip(i) ==
    /\ i + 1 \in DOMAIN ops
    /\ ops[i].op = "Zip" /\ ops[i].err = Nil
    /\ {ops[i].listing[k] : k \in DOMAIN ops[i].listing} = {XPath, DirYPath}
    /\ ops[i + 1].op = "UnZip" /\ ops[i + 1].arg = ops[i].arg
    /\ ops[i + 1].listing = <<OutDir>>
    /\ FilesBelow(ops[i + 1].fsPre, OutDir) = {}
    /\ ops[i + 1].fail = 0

\* C21: archiving x and dir/y with Zip stores each file under the last
\* element of its path (no entry name holds a separator), and extracting the
\* archive with UnZip into an empty directory returns no error and leaves
\* there exactly the files x and y, x with the bytes of x and y with the
\* bytes of dir/y.
C21_ZipRoundTripFlattens ==
    /\ \A i \in DOMAIN ops :
           (ops[i].op = "Zip" /\ ops[i].err = Nil) =>
               LET entries == ops[i].fsPost[ops[i].arg].entries
               IN  /\ Len(entries) = Len(ops[i].listing)
                   /\ \A k \in DOMAIN entries :
                          /\ entries[k].name = Base(ops[i].listing[k])
                          /\ \A n \in DOMAIN entries[k].name :
                                 entries[k].name[n] # Sep
    /\ \A i \in DOMAIN ops :
           ZipRoundTrip(i) =>
               LET post == ops[i + 1].fsPost
               IN  /\ ops[i + 1].err = Nil
                   /\ FilesBelow(post, OutDir) =
                          {Join(OutDir, <<"x">>), Join(OutDir, <<"y">>)}
                   /\ post[Join(OutDir, <<"x">>)] = ops[i].fsPre[XPath]
                   /\ post[Join(OutDir, <<"y">>)] = ops[i].fsPre[DirYPath]

\* C21 witness: the zip archive of x and dir/y was extracted into the empty
\* output directory.
C21_Witness ==
    \E i \in DOMAIN ops :
        /\ ZipRoundTrip(i)
        /\ ops[i + 1].err = Nil
        /\ Join(OutDir, <<"y">>) \in DOMAIN ops[i + 1].fsPost

\* The waiter took the deadline case of its select.
TimedOut == auth.chan = "closed"

\* The waiter went on to config.Exchange.
AtExchange ==
    \/ auth.pc \in {"exchange", "save"}
    \/ auth.pc = "returned" /\ auth.chan # "none"
    \/ auth.pc = "fatal" /\ auth.chan = "open"

\* C22: the select of getTokenFromWeb has exactly one outcome.  Either the
\* waiter received one code from the channel and went on to the exchange, or
\* the deadline case ran and the process ended in log.Fatalf; the waiter is
\* never at the exchange without one received code, and never took both cases.
C22_OneOutcome ==
    auth.pc # "off" =>
        /\ Len(auth.received) <= 1
        /\ AtExchange => Len(auth.received) = 1 /\ ~TimedOut
        /\ TimedOut => /\ auth.received = <<>>
                       /\ auth.ctx = "done"
                       /\ auth.pc \in {"closed", "fatal"}
                       /\ auth.pc = "fatal" => auth.exited
        /\ ~(AtExchange /\ TimedOut)
        /\ auth.result = NewToken => Len(auth.received) = 1

\* The race lost by a callback: a handler stands at the send, and the waiter
\* took the deadline and ended the process.
C22_Witness ==
    /\ auth.pc = "fatal" /\ auth.exited /\ TimedOut
    /\ \E h \in Requests : auth.handler[h] = "send" /\ auth.code[h] = "code"

RunReturned == auth.pc # "off" /\ auth.srv = "returned"

\* A code was written onto the channel.
TokenWritten == auth.pc # "off" /\ auth.sent > 0

\* The context is done and no callback request has arrived.
ExpiredWithoutRequest ==
    /\ auth.pc # "off" /\ auth.ctx = "done" /\ auth.srv = "listening"
    /\ \A h \in Requests : auth.handler[h] = "none"

\* C23: Run stops in both cases of its documentation: once a token has been
\* written onto the channel Run eventually returns, and once the context has
\* expired without a request Run eventually returns too.
C23_RunStops ==
    /\ TokenWritten ~> RunReturned
    /\ ExpiredWithoutRequest ~> RunReturned

\* The waiter has left its select for good and the channel is still open: a
\* handler standing at the send will never be received from.
StoppedReceiving ==
    auth.chan = "open" /\ auth.pc \in {"exchange", "save", "returned", "fatal"}

\* C29: no handler sends on the token channel once the waiter has closed it
\* (no send panics), and no handler stands at the send after the waiter has
\* stopped receiving.
C29_NoSendAfterClose ==
    auth.pc # "off" =>
        /\ auth.panics = 0
        /\ \A h \in Requests : ~(auth.handler[h] = "send" /\ StoppedReceiving)

\* The token file opened and decoded when getToken read it.
TokenRead ==
    /\ Len(auth.io) >= 1 /\ auth.io[1].ok
    /\ auth.file0 \notin {"missing", "corrupt"}

WebFlowStarted == auth.chan # "none" \/ auth.ctx # "none" \/ auth.srv # "off"

\* The outcome of writing the token file, once getToken has tried it.
Saved(ok) == Len(auth.io) = 2 /\ auth.io[2].op = "save" /\ auth.io[2].ok = ok

\* C25: when the token file opens and decodes, getToken returns its token
\* and never starts the web flow; otherwise a token it returns came through
\* the web flow and is in the token file by then; and when writing the token
\* file fails, getToken returns an error and no token.
C25_TokenFileFirst ==
    auth.pc \notin {"off", "getToken"} =>
        /\ TokenRead => /\ auth.pc = "returned" /\ ~auth.err
                        /\ auth.result = auth.file0
                        /\ ~WebFlowStarted
        /\ ~TokenRead /\ auth.pc = "returned" /\ ~auth.err =>
               /\ auth.result = NewToken /\ Len(auth.received) = 1
               /\ auth.tokenFile = auth.result /\ Saved(TRUE)
        /\ Saved(FALSE) => auth.pc = "returned" /\ auth.err /\ auth.result = NoToken
        /\ auth.pc = "returned" /\ ~TokenRead => Saved(TRUE) \/ Saved(FALSE)

\* getToken went through the web flow and could not write the token file.
C25_Witness ==
    /\ auth.pc = "returned" /\ Saved(FALSE) /\ auth.file0 = "corrupt"
    /\ auth.received = <<"code">>

\* Caller c created a remote file.
Created(c) ==
    /\ callers[c].pc = "done" /\ callers[c].created > 0
    /\ callers[c].id # EmptyId

SameTarget(a, b) ==
    /\ callers[a].fileName = callers[b].fileName
    /\ callers[a].parentID = callers[b].parentID

\* The two calls interleaved: each existence check ran before the creation
\* call of the other.
Interleaved(a, b) ==
    /\ callers[a].listed < callers[b].created
    /\ callers[b].listed < callers[a].created

\* C24: two calls of GetOrCreateFile with the same (name, parent) both create
\* a file only when they interleave, each check before the other's creation;
\* when one call ends before the other begins, at most one of them creates,
\* and the later one returns a file of that name that is there already.
C24_DuplicatesNeedInterleaving ==
    callers # NoCallers =>
        \A a, b \in Callers :
            a # b /\ SameTarget(a, b) /\ callers[a].pc = "done" /\ callers[b].pc = "done" =>
                /\ Created(a) /\ Created(b) => Interleaved(a, b)
                /\ Created(a) /\ callers[a].created < callers[b].listed
                       /\ callers[b].err = Nil =>
                       /\ callers[b].created = 0
                       /\ callers[b].id \in Matches(remote, "any", callers[b].fileName,
                                                    callers[b].parentID)

\* Both checks missed and both callers created: two remote files of one name
\* under one parent.
C24_Witness ==
    /\ callers # NoCallers
    /\ Created(1) /\ Created(2) /\ SameTarget(1, 2) /\ Interleaved(1, 2)
    /\ callers[1].id # callers[2].id
    /\ Cardinality(Matches(remote, "any", callers[1].fileName, callers[1].parentID)) = 2

\* The archive UploadFile makes of the tree archive.
NestedArchive(dirname) ==
    IF compression = GZipCompression THEN tarGzipFilename(TreeArchive(dirname))
    ELSE zipFilename(TreeArchive(dirname))

ArchiveKind == IF compression = GZipCompression THEN "tar.gz" ELSE "zip"

\* The steps of building both archives, all successful: the tree archive of
\* the listing, then the archive of the tree archive.
BothBuilt(o) ==
    LET n == Len(o.listing)
    IN  /\ Len(o.built) = n + 3
        /\ \A k \in DOMAIN o.built : o.built[k].ok
        /\ o.built[1] = BuildStep("create", TreeArchive(o.arg), TRUE)
        /\ \A k \in 1..n : o.built[k + 1] = BuildStep("add", o.listing[k], TRUE)
        /\ o.built[n + 2] = BuildStep("create", NestedArchive(o.arg), TRUE)
        /\ o.built[n + 3] = BuildStep("add", TreeArchive(o.arg), TRUE)

\* The tree archive was built: created, and every listed file added.
TreeBuilt(o) ==
    /\ Len(o.built) >= Len(o.listing) + 1
    /\ \A k \in 1..(Len(o.listing) + 1) : o.built[k].ok

\* The content of an archive of the tree archive, whose entries are the
\* listed files with the bytes they had.
IsNestedContent(c, o) ==
    /\ c.kind = ArchiveKind
    /\ Len(c.entries) = 1
    /\ c.entries[1].data.kind = ArchiveKind
    /\ Len(c.entries[1].data.entries) = Len(o.listing)
    /\ \A k \in DOMAIN o.listing :
           c.entries[1].data.entries[k].data = o.fsPre[o.listing[k]]

\* C26: in whole-tree mode UploadDirectory archives, compresses, uploads, in
\* this order.  Once the tree archive is built it goes to UploadFile, which
\* starts a second archive of it under the same mode; remote calls come only
\* after both archives are built; the bytes a creation call sends are those
\* of the second archive; and once the file of the second archive was
\* created, neither archive file is left when UploadDirectory returns.
C26_ArchiveTwiceThenUpload ==
    \A i \in DOMAIN ops :
        (/\ ops[i].op = "UploadDirectory"
         /\ compression \in {GZipCompression, ZipCompression}) =>
            LET o == ops[i]
                cs == OpCalls(o)
                n == Len(o.listing)
            IN  /\ (TreeBuilt(o) /\ o.fail # n + 3) =>
                       /\ Len(o.built) >= n + 2
                       /\ o.built[n + 2].op = "create"
                       /\ o.built[n + 2].path = NestedArchive(o.arg)
                /\ cs # <<>> => BothBuilt(o)
                /\ \A j \in CreatesIn(cs, "file") :
                       cs[j].ok => IsNestedContent(remote[cs[j].id].content, o)
                /\ (Len(o.built) >= n + 2 /\ o.built[n + 2].ok) =>
                       /\ TreeArchive(o.arg) \notin DOMAIN o.fsPost
                       /\ NestedArchive(o.arg) \notin DOMAIN o.fsPost

\* The content of the archive UploadFile builds of one local file.
IsFileArchive(c, o) ==
    /\ c.kind = ArchiveKind
    /\ Len(c.entries) = 1
    /\ c.entries[1].data = o.fsPre[o.arg]

\* C27: under GZipCompression or ZipCompression every remote call of
\* UploadFile, the lookup and the creation, names the file by the base name
\* of the source, without the suffix of the archive, under the parent given;
\* the content a creation sends is the archive of the source; and when a file
\* of the source's name is already under the parent, the archive is built but
\* no creation call is issued and the file found is returned.
C27_SourceNameArchiveContent ==
    \A i \in DOMAIN ops :
        (/\ ops[i].op = "UploadFile"
         /\ compression \in {GZipCompression, ZipCompression}) =>
            LET o == ops[i]
                cs == OpCalls(o)
                there == Existing(o.pre, Base(o.arg), o.parent)
            IN  /\ \A j \in DOMAIN cs :
                       /\ cs[j].name = Base(o.arg)
                       /\ cs[j].name # tarGzipFilename(Base(o.arg))
                       /\ cs[j].name # zipFilename(Base(o.arg))
                       /\ cs[j].parent = o.parent
                /\ \A j \in CreatesIn(cs, "file") :
                       cs[j].ok => /\ remote[cs[j].id].name = Base(o.arg)
                                   /\ IsFileArchive(remote[cs[j].id].content, o)
                /\ there # {} =>
                       /\ CreatesIn(cs, "file") = {}
                       /\ o.err = Nil => o.id \in there
                /\ (there = {} /\ o.err = Nil) =>
                       Cardinality(CreatesIn(cs, "file")) = 1

\* An archive was built of a.txt and not sent, a.txt being under the parent
\* already; and another upload sent the archive of a source under the
\* source's name.
C27_Witness ==
    /\ compression = ZipCompression
    /\ \E i \in DOMAIN ops :
        /\ ops[i].op = "UploadFile" /\ ops[i].err = Nil
        /\ Existing(ops[i].pre, Base(ops[i].arg), ops[i].parent) # {}
        /\ ops[i].built # <<>> /\ \A k \in DOMAIN ops[i].built : ops[i].built[k].ok
        /\ ListsIn(OpCalls(ops[i])) # {}
    /\ \E i \in DOMAIN ops :
        /\ ops[i].op = "UploadFile" /\ ops[i].err = Nil
        /\ ops[i].arg = ReadmePath
        /\ \E j \in CreatesIn(OpCalls(ops[i]), "file") :
               IsFileArchive(remote[OpCalls(ops[i])[j].id].content, ops[i])

\* The folder calls of an operation: lookups and creations of folders.
FolderCalls(cs) == {j \in DOMAIN cs : cs[j].mime = "folder"}

\* C28: in per-file mode the first folder call of UploadDirectory, and every
\* folder call under the target parent, names the base name of the local
\* root; and neither UploadDirectory nor MkdirAll looks up or creates a
\* folder named "" or ".", whatever the root, the file or the separators of
\* the path are.
C28_ChainFromRootName ==
    \A i \in DOMAIN ops :
        LET o == ops[i]
            cs == OpCalls(o)
        IN  /\ \A j \in FolderCalls(cs) :
                   cs[j].name # <<>> /\ cs[j].name # <<Dot>>
            /\ (o.op = "UploadDirectory" /\ compression = NoCompression) =>
                   \A j \in FolderCalls(cs) :
                       (cs[j].parent = o.parent \/ j = 1) =>
                           /\ cs[j].name = Base(o.arg)
                           /\ cs[j].parent = o.parent

NoRepeat(seq) == \A a, b \in DOMAIN seq : a # b => seq[a] # seq[b]

\* The names of the folders of a trace that are listed, innermost last.
RECURSIVE NamesUp(_, _)
NamesUp(rem, trace) ==
    IF Len(trace) = 0 THEN <<>>
    ELSE IF Head(trace) \in FoldersResp(rem)
    THEN NamesUp(rem, Tail(trace)) \o <<rem[Head(trace)].name>>
    ELSE NamesUp(rem, Tail(trace))

\* C30: for every drive listed, with a cycle of parents or a parent that is
\* not among the folders listed, ListFiles and ListFilesInFolder return, and
\* for every file they return the walk of buildPath took at most 10 steps and
\* visited no folder id twice; the folder path is "My Drive" followed by the
\* names of the folders visited, at most 10, outermost first, and "My Drive"
\* alone when the file has no parent or its first parent is not a folder
\* listed.
C30_PathWalkBounded ==
    \A i \in DOMAIN ops :
        (ops[i].op \in {"ListFiles", "ListFilesInFolder"} /\ ops[i].err = Nil) =>
            \A k \in DOMAIN ops[i].files :
                LET f == ops[i].files[k]
                    p == f.FolderPath
                    rem == ops[i].pre
                IN  /\ Len(p.trace) <= MaxLevels
                    /\ NoRepeat(p.trace)
                    /\ Len(p.pathParts) <= MaxLevels
                    /\ p.pathParts = NamesUp(rem, p.trace)
                    /\ p.path = IF p.pathParts = <<>> THEN MyDrive
                                ELSE MyDrive \o <<Sep>> \o JoinSegs(p.pathParts)
                    /\ (f.Parents = <<>> \/ f.Parents[1] \notin FoldersResp(rem)) <=>
                           p.path = MyDrive
                    /\ \A n \in DOMAIN p.trace :
                           n < Len(p.trace) =>
                               /\ p.trace[n] \in FoldersResp(rem)
                               /\ p.trace[n + 1] = rem[p.trace[n]].parent

\* A file in a cycle of three folders: the walk went round once and stopped.
C30_Witness ==
    \E i \in DOMAIN ops :
        /\ ops[i].op = "ListFiles" /\ ops[i].err = Nil
        /\ Len(ops[i].pre) = 4 /\ ops[i].pre[3].parent = 1
        /\ Len(ops[i].files) = 1
        /\ ops[i].files[1].FolderPath.trace = <<1, 2, 3>>
        /\ ops[i].files[1].FolderPath.path =
               <<"My Drive", Sep, "3", Sep, "2", Sep, "1">>

====
